---- MODULE Spec2Model ----
(***************************************************************************)
(* Verification model of youtube_mcp: the quota budgeter, the channel      *)
(* reference parser, the channel resolver and the channel video listing    *)
(* pipelines (uploads_playlist, local_sort, search_api, channel search).   *)
(*                                                                         *)
(* Python strings are TLA+ strings, read character by character with      *)
(* Len and SubSeq, so that prefix tests, stripping and URL splitting are   *)
(* computed rather than assumed.                                           *)
(* Python None is the model value None; exceptions are outcome records     *)
(* whose status names the exception class.                                 *)
(***************************************************************************)
EXTENDS Integers, Sequences, FiniteSets, TLC

VARIABLES
    \* ---- one call of estimate_channel_videos_quota
    q_strategy,      \* strategy argument
    q_requested,     \* requested_max_videos argument
    q_budget,        \* budget argument (QuotaBudget)
    q_details,       \* include_video_details argument
    q_result,        \* outcome of the call, or the pending marker
    \* ---- one call of resolve_channel or of a listing pipeline
    op,              \* the entry point called
    args,            \* its arguments
    f_strategy,      \* strategy of the dispatching list_channel_videos call, or None
    pc,              \* position of the call: start, resolve, list, videos, done, failed
    calls,           \* the backend requests issued so far, in order
    quota_est,       \* quota_est of the pipeline (result of the pre-flight estimate)
    resolve_data,    \* data: the response to the resolver's backend request
    resolved,        \* the ResolvedChannel obtained from resolve_channel
    l_ids,           \* ids: the video identifiers collected to batch-fetch
    l_token,         \* nextPageToken of the last list response (None if unusable)
    list_resp,       \* resp: the last playlistItems.list or search.list response
    l_pages,         \* local_sort's pages: collection-items pages fetched so far
    l_truncated,     \* the truncated flag computed by the pipeline
    l_videos,        \* local_sort's videos: records accumulated by the batch loop
    result,          \* the returned value or the raised exception
    \* ---- one call of a pure function (parse_channel_ref, filter_videos, ...)
    p_fn,            \* the function called
    p_in,            \* its arguments
    p_out,           \* its outcome, or the pending marker
    \* ---- one operation of YouTubeDataApiClient
    c_endpoint,      \* endpoint: the operation name passed to _get
    c_part,          \* part: the field selector
    c_config,        \* max_retries, initial_backoff_s, max_backoff_s (milliseconds)
    c_pc,            \* position: idle, get, request, done, failed
    attempt,         \* attempt of _request_json: HTTP attempts made so far
    backoff,         \* backoff of _request_json: the next delay (milliseconds)
    c_slept,         \* the delays slept so far, in order
    c_last,          \* the outcome of the last HTTP attempt
    c_result,        \* the decoded response or the raised error
    \* ---- a walk over the pages of uploads_playlist
    w_playlist,      \* the backend's collection: the content of each page
    w_max,           \* max_videos, the same in every call of the walk
    w_token,         \* page_token of the next call
    w_pc,            \* position: idle, call, ended
    w_resp,          \* the playlistItems.list response of the last call
    w_fetched        \* the identifier lists handed to videos.list, one per call

est_vars == <<q_strategy, q_requested, q_budget, q_details, q_result>>

call_vars == <<op, args, f_strategy, pc, calls, quota_est, resolve_data, resolved, l_ids, l_token,
               list_resp, l_pages, l_truncated, l_videos, result>>

pure_vars == <<p_fn, p_in, p_out>>

client_vars == <<c_endpoint, c_part, c_config, c_pc, attempt, backoff, c_slept, c_last,
                 c_result>>

walk_vars == <<w_playlist, w_max, w_token, w_pc, w_resp, w_fetched>>

vars == <<est_vars, call_vars, pure_vars, client_vars, walk_vars>>

None == "None"

\* the tuple with the elements of the finite sequence f
Tuple(f) == f \o <<>>

(***************************************************************************)
(* quota_budgeter.py                                                       *)
(***************************************************************************)
QUOTA_COST_READ == 1
QUOTA_COST_SEARCH == 100
DEFAULT_VIDEOS_LIST_BATCH == 50
SEARCH_API_VIDEO_CAP == 500

Min(a, b) == IF a <= b THEN a ELSE b

\* QuotaBudget(max_videos, max_pages, max_quota_units)
QuotaBudget(mv, mp, mq) ==
    [max_videos |-> mv, max_pages |-> mp, max_quota_units |-> mq]

NOTE_VIDEOS_TRUNCATED == "requested_max_videos truncated to budget.max_videos"
NOTE_PAGES_TRUNCATED == "pages truncated to budget.max_pages"
NOTE_SEARCH_CAPPED == "search_api is capped to 500 videos by API behavior"

\* Outcome of a call: a QuotaEstimate (status "ok") or the raised exception.
QuotaEstimate(units, strategy, notes) ==
    [status |-> "ok", estimated_units |-> units, strategy |-> strategy, notes |-> notes]

Raised(exc) ==
    [status |-> exc, estimated_units |-> 0, strategy |-> None, notes |-> <<>>]

\* (n + 49) // 50 : pages of 50 playlist items needed for n videos
PagesNeeded(n) == (n + 49) \div 50

\* mutant: over the page ceiling the plan falls back to a single page
PagesCapped_FallbackOnePage(n, budget) ==
    IF PagesNeeded(n) <= budget.max_pages THEN PagesNeeded(n) ELSE 1

\* pages = min((max_videos + 49) // 50, budget.max_pages)
PagesCapped(n, budget) == Min(PagesNeeded(n), budget.max_pages)

\* batches = (n + (DEFAULT_VIDEOS_LIST_BATCH - 1)) // DEFAULT_VIDEOS_LIST_BATCH
DetailBatches(n) == (n + (DEFAULT_VIDEOS_LIST_BATCH - 1)) \div DEFAULT_VIDEOS_LIST_BATCH

\* mutant: the comparison with the ceiling is >= instead of >
EnforceBudget_OffByOne(units, strategy, notes, budget) ==
    IF units >= budget.max_quota_units
    THEN Raised("QuotaBudgetExceeded")
    ELSE QuotaEstimate(units, strategy, notes)

\* if units > budget.max_quota_units: raise QuotaBudgetExceeded
EnforceBudget(units, strategy, notes, budget) ==
    IF units > budget.max_quota_units
    THEN Raised("QuotaBudgetExceeded")
    ELSE QuotaEstimate(units, strategy, notes)

\* the uploads_playlist / local_sort branch
EstimatePlaylistBranch(strategy, max_videos, pages, notes, budget, include_video_details) ==
    LET units0 == pages * QUOTA_COST_READ
        units == IF include_video_details
                 THEN units0 + DetailBatches(max_videos) * QUOTA_COST_READ
                 ELSE units0
    IN EnforceBudget(units, strategy, notes, budget)

\* mutant: the 500-video ceiling of search_api is not applied
CappedVideos_NoCap(max_videos) == max_videos

\* capped_videos = min(max_videos, 500)
CappedVideos(max_videos) == Min(max_videos, SEARCH_API_VIDEO_CAP)

\* the search_api branch
EstimateSearchBranch(strategy, max_videos, notes0, budget, include_video_details) ==
    LET capped_videos == CappedVideos(max_videos)
        notes == IF capped_videos < max_videos
                 THEN Append(notes0, NOTE_SEARCH_CAPPED)
                 ELSE notes0
        pages == PagesCapped(capped_videos, budget)
        units0 == pages * QUOTA_COST_SEARCH
        units == IF include_video_details
                 THEN units0 + DetailBatches(capped_videos) * QUOTA_COST_READ
                 ELSE units0
    IN EnforceBudget(units, strategy, notes, budget)

\* max_videos = min(requested_max_videos, budget.max_videos)
EffectiveMaxVideos(requested_max_videos, budget) ==
    Min(requested_max_videos, budget.max_videos)

estimate_channel_videos_quota(strategy, requested_max_videos, budget, include_video_details) ==
    IF requested_max_videos <= 0
    THEN Raised("ValueError")
    ELSE
      LET max_videos == EffectiveMaxVideos(requested_max_videos, budget)
          pages == PagesCapped(max_videos, budget)
          notes1 == IF requested_max_videos > budget.max_videos
                    THEN <<NOTE_VIDEOS_TRUNCATED>>
                    ELSE <<>>
          notes2 == IF pages < PagesNeeded(max_videos)
                    THEN Append(notes1, NOTE_PAGES_TRUNCATED)
                    ELSE notes1
      IN CASE strategy \in {"uploads_playlist", "local_sort"} ->
                EstimatePlaylistBranch(strategy, max_videos, pages, notes2, budget,
                                       include_video_details)
           [] strategy = "search_api" ->
                EstimateSearchBranch(strategy, max_videos, notes2, budget,
                                     include_video_details)
           [] OTHER -> Raised("ValueError")

(***************************************************************************)
(* String helpers (Python str methods used by channel_ref.py)              *)
(***************************************************************************)
CharAt(s, i) == SubSeq(s, i, i)

\* s[i:] with a 1-based i
From(s, i) == SubSeq(s, i, Len(s))

\* s.startswith(p)
StartsWith(s, p) == Len(s) >= Len(p) /\ SubSeq(s, 1, Len(p)) = p

\* c in s, for a single character c
HasChar(s, c) == \E i \in 1 .. Len(s) : CharAt(s, i) = c

\* least index >= start of a character of cs in s, or 0 (str.find, 1-based)
FindAny(s, cs, start) ==
    LET hits == { i \in start .. Len(s) : CharAt(s, i) \in cs }
    IN IF hits = {} THEN 0 ELSE CHOOSE i \in hits : \A j \in hits : i <= j

\* greatest index of character c in s, or 0 (str.rfind, 1-based)
RFind(s, c) ==
    LET hits == { i \in 1 .. Len(s) : CharAt(s, i) = c }
    IN IF hits = {} THEN 0 ELSE CHOOSE i \in hits : \A j \in hits : i >= j

\* characters str.strip() removes (ASCII whitespace)
Whitespace == {" ", "\t", "\n", "\r", "\f"}

\* s.strip(chars): drop leading and trailing characters of cs
StripChars(s, cs) ==
    LET keep == { i \in 1 .. Len(s) : CharAt(s, i) \notin cs }
    IN IF keep = {} THEN ""
       ELSE SubSeq(s, CHOOSE i \in keep : \A j \in keep : i <= j,
                      CHOOSE i \in keep : \A j \in keep : i >= j)

RECURSIVE RemoveChars(_, _)
\* s.replace(c, "") for every c of cs
RemoveChars(s, cs) ==
    IF s = "" THEN ""
    ELSE IF Head(s) \in cs THEN RemoveChars(Tail(s), cs)
         ELSE Head(s) \o RemoveChars(Tail(s), cs)

UpperLetters == "ABCDEFGHIJKLMNOPQRSTUVWXYZ"
LowerLetters == "abcdefghijklmnopqrstuvwxyz"
Digits == "0123456789"

LowerChar(c) ==
    IF HasChar(UpperLetters, c)
    THEN CharAt(LowerLetters, FindAny(UpperLetters, {c}, 1))
    ELSE c

RECURSIVE Lower(_)
\* s.lower()
Lower(s) == IF s = "" THEN "" ELSE LowerChar(Head(s)) \o Lower(Tail(s))

IsAlpha(c) == HasChar(UpperLetters, c) \/ HasChar(LowerLetters, c)

\* urllib.parse.scheme_chars: letters, digits and "+-."
IsSchemeChar(c) == IsAlpha(c) \/ HasChar(Digits, c) \/ c \in {"+", "-", "."}

(***************************************************************************)
(* urllib.parse.urlparse, for the ASCII inputs of the model: the scheme,   *)
(* the netloc and the path of the result (query, fragment and params are   *)
(* split off the path and not used by channel_ref.py).                     *)
(***************************************************************************)
UrlParts(scheme, netloc, path) ==
    [status |-> "ok", scheme |-> scheme, netloc |-> netloc, path |-> path]

UrlInvalid == [status |-> "ValueError", scheme |-> "", netloc |-> "", path |-> ""]

\* s.split(c, 1)[0] for a single character c
Before(s, c) ==
    LET k == FindAny(s, {c}, 1)
    IN IF k = 0 THEN s ELSE SubSeq(s, 1, k - 1)

\* _splitparams: the params after the ';' of the last path segment are cut off
CutParams(url) ==
    LET p == FindAny(url, {";"}, IF RFind(url, "/") = 0 THEN 1 ELSE RFind(url, "/"))
    IN IF p = 0 THEN url ELSE SubSeq(url, 1, p - 1)

\* the fragment ('#') and then the query ('?') are split off, then the params
UrlPath(url) == CutParams(Before(Before(url, "#"), "?"))

\* index of the ':' that ends a valid scheme (a letter, then scheme chars), or 0
SchemeEnd(url) ==
    LET i == FindAny(url, {":"}, 1)
    IN IF /\ i > 1
          /\ IsAlpha(CharAt(url, 1))
          /\ \A j \in 1 .. (i - 1) : IsSchemeChar(CharAt(url, j))
       THEN i ELSE 0

\* the netloc is checked for unbalanced brackets, the rest is the path
UrlChecked(scheme, netloc, rest) ==
    IF HasChar(netloc, "[") # HasChar(netloc, "]")
    THEN UrlInvalid   \* raise ValueError("Invalid IPv6 URL")
    ELSE UrlParts(scheme, netloc, UrlPath(rest))

\* a url that starts with '//' has a netloc up to the first of '/', '?', '#'
UrlNetloc(scheme, url, delim) ==
    IF delim = 0 THEN UrlChecked(scheme, From(url, 3), "")
    ELSE UrlChecked(scheme, SubSeq(url, 3, delim - 1), From(url, delim))

UrlAfterScheme(scheme, url) ==
    IF StartsWith(url, "//")
    THEN UrlNetloc(scheme, url, FindAny(url, {"/", "?", "#"}, 3))
    ELSE UrlParts(scheme, "", UrlPath(url))

UrlSplitScheme(url, i) ==
    IF i > 0 THEN UrlAfterScheme(Lower(SubSeq(url, 1, i - 1)), From(url, i + 1))
    ELSE UrlAfterScheme("", url)

UrlClean(url) == UrlSplitScheme(url, SchemeEnd(url))

\* tab, CR and LF are removed from the url first
urlparse(input) == UrlClean(RemoveChars(input, {"\t", "\r", "\n"}))

(***************************************************************************)
(* channel_ref.py                                                          *)
(***************************************************************************)
YOUTUBE_HOSTS == {"youtube.com", "www.youtube.com", "m.youtube.com"}
PATH_AT_HANDLE == "/@"
PATH_CHANNEL == "/channel/"
PATH_USER == "/user/"
PATH_CUSTOM == "/c/"
MIN_CHANNEL_ID_LEN == 16

ChannelRefKinds == {"handle", "channel_id", "username", "custom_url", "query"}

ChannelRef(kind, value, raw) ==
    [status |-> "ok", kind |-> kind, value |-> value, raw |-> raw]

\* an exception leaving parse_channel_ref
ParseRaised(exc) == [status |-> exc, kind |-> None, value |-> "", raw |-> ""]

\* _reject_separators: any(sep in value for sep in ("/", "?", "#"))
HasSeparator(value) == \E i \in 1 .. Len(value) : CharAt(value, i) \in {"/", "?", "#"}

\* _looks_like_channel_id
looks_like_channel_id(value) ==
    /\ StartsWith(value, "UC")
    /\ Len(value) >= MIN_CHANNEL_ID_LEN
    /\ ~HasChar(value, " ")

\* path[len(prefix):].strip("/"), _require_non_empty, _reject_separators
PathSegmentRef(kind, path, prefix, raw) ==
    LET seg == StripChars(From(path, Len(prefix) + 1), {"/"})
    IN IF seg = "" THEN ParseRaised("ChannelRefParseError")
       ELSE IF HasSeparator(seg) THEN ParseRaised("ChannelRefParseError")
       ELSE ChannelRef(kind, seg, raw)

\* _try_parse_youtube_url; the result None is the record NoUrl
NoUrl == [status |-> "None", kind |-> None, value |-> "", raw |-> ""]

\* the kind is read off the path prefix of a youtube url
PathRef(path, raw) ==
    IF StartsWith(path, PATH_AT_HANDLE)
    THEN PathSegmentRef("handle", path, PATH_AT_HANDLE, raw)
    ELSE IF StartsWith(path, PATH_CHANNEL)
    THEN PathSegmentRef("channel_id", path, PATH_CHANNEL, raw)
    ELSE IF StartsWith(path, PATH_USER)
    THEN PathSegmentRef("username", path, PATH_USER, raw)
    ELSE IF StartsWith(path, PATH_CUSTOM)
    THEN PathSegmentRef("custom_url", path, PATH_CUSTOM, raw)
    ELSE ChannelRef("query", raw, raw)

\* host = (parsed.netloc or "").lower(); only youtube hosts are parsed further
HostRef(host, path, raw) ==
    IF host = "" \/ host \notin YOUTUBE_HOSTS THEN NoUrl ELSE PathRef(path, raw)

ParsedUrlRef(parsed, raw) ==
    IF parsed.status # "ok" THEN ParseRaised("ValueError")
    ELSE IF parsed.scheme # "" /\ parsed.scheme \notin {"http", "https"} THEN NoUrl
    ELSE HostRef(Lower(parsed.netloc), parsed.path, raw)

try_parse_youtube_url(raw) ==
    ParsedUrlRef(urlparse(IF \/ StartsWith(raw, "youtube.com/")
                             \/ StartsWith(raw, "www.youtube.com/")
                             \/ StartsWith(raw, "m.youtube.com/")
                          THEN "https://" \o raw
                          ELSE raw),
                 raw)

\* mutant: the handle after "@" is not stripped of whitespace
ExplicitHandleRef_NoStrip(raw) ==
    IF From(raw, 2) = "" THEN ParseRaised("ChannelRefParseError")
    ELSE IF HasSeparator(From(raw, 2)) THEN ParseRaised("ChannelRefParseError")
    ELSE ChannelRef("handle", From(raw, 2), raw)

\* the "@" fast path: raw[1:].strip(), non-empty, separator-free
ExplicitHandleRef(raw) ==
    LET handle == StripChars(From(raw, 2), Whitespace)
    IN IF handle = "" THEN ParseRaised("ChannelRefParseError")
       ELSE IF HasSeparator(handle) THEN ParseRaised("ChannelRefParseError")
       ELSE ChannelRef("handle", handle, raw)

\* a reference that is not a url is a query
UrlOrQueryRef(parsed, raw) ==
    IF parsed.status # "None" THEN parsed ELSE ChannelRef("query", raw, raw)

NormalizedRef(raw) ==
    IF raw = "" THEN ParseRaised("ChannelRefParseError")
    ELSE IF StartsWith(raw, "@") THEN ExplicitHandleRef(raw)
    ELSE IF looks_like_channel_id(raw) THEN ChannelRef("channel_id", raw, raw)
    ELSE UrlOrQueryRef(try_parse_youtube_url(raw), raw)

\* raw = _normalize_raw(user_input), i.e. user_input.strip()
parse_channel_ref(user_input) == NormalizedRef(StripChars(user_input, Whitespace))

(***************************************************************************)
(* Decoded backend responses. A JSON value is a tagged record: a string    *)
(* JStr(s), a list JList(<<...>>), a dict JDict([key |-> value, ...]), any *)
(* other value (bool, null, float) JOther, and JAbsent for a key that is   *)
(* not in the dict (what dict.get returns as None); JNum(n) is a number.   *)
(***************************************************************************)
JStr(s) == [t |-> "str", v |-> s]
JList(seq) == [t |-> "list", v |-> seq]
JDict(fields) == [t |-> "dict", v |-> fields]
JNum(n) == [t |-> "num", v |-> n]
JOther == [t |-> "other"]
JAbsent == [t |-> "absent"]

\* isinstance(x, str) / list / dict
IsStr(x) == x.t = "str"
IsList(x) == x.t = "list"
IsDict(x) == x.t = "dict"

\* d.get(key) for a dict d
Get(d, key) == IF key \in DOMAIN d.v THEN d.v[key] ELSE JAbsent

\* "v if isinstance(v, str) and v else None"
StrOrNone(x) == IF IsStr(x) /\ x.v # "" THEN x.v ELSE None

\* _get_str(obj, key)
get_str(obj, key) == IF ~IsDict(obj) THEN None ELSE StrOrNone(Get(obj, key))

(***************************************************************************)
(* channel_resolver.py                                                     *)
(***************************************************************************)
ResolvedChannel(channel_id, title, handle, uploads_playlist_id, warnings, candidates) ==
    [status |-> "ok", at |-> "", channel_id |-> channel_id, title |-> title,
     handle |-> handle,
     uploads_playlist_id |-> uploads_playlist_id, warnings |-> warnings,
     candidates |-> candidates]

ChannelCandidate(channel_id, title, handle) ==
    [channel_id |-> channel_id, title |-> title, handle |-> handle]

\* an exception leaving resolve_channel; `at` names the raising function
ResolveRaised(exc, at) ==
    [status |-> exc, at |-> at, channel_id |-> None, title |-> None, handle |-> None,
     uploads_playlist_id |-> None, warnings |-> <<>>, candidates |-> <<>>]

NotResolved == ResolveRaised("pending", "")

WARN_NO_UPLOADS == "uploadsPlaylistId not available"
WARN_BEST_EFFORT == "best_effort_candidates_only"

\* _extract_uploads_playlist_id
extract_uploads_playlist_id(item) ==
    IF ~IsDict(item) THEN None
    ELSE LET content == Get(item, "contentDetails")
         IN IF ~IsDict(content) THEN None
            ELSE LET related == Get(content, "relatedPlaylists")
                 IN IF ~IsDict(related) THEN None
                    ELSE StrOrNone(Get(related, "uploads"))

\* channel_id = _get_str(item, "id")
ChannelIdOf(item) == get_str(item, "id")

\* the ResolvedChannel _resolve_channels_list builds from the single item
ResolvedFromItem(item, include_uploads_playlist) ==
    LET channel_id == ChannelIdOf(item)
        snippet == IF IsDict(item) THEN Get(item, "snippet") ELSE JAbsent
        title == IF IsDict(snippet) THEN get_str(snippet, "title") ELSE None
        handle == IF IsDict(snippet) THEN get_str(snippet, "customUrl") ELSE None
        uploads == IF include_uploads_playlist
                   THEN extract_uploads_playlist_id(item) ELSE None
        warnings == IF include_uploads_playlist /\ uploads = None
                    THEN <<WARN_NO_UPLOADS>> ELSE <<>>
    IN ResolvedChannel(channel_id, title, handle, uploads, warnings, <<>>)

\* mutant: of several matching channels the first one is taken
ResolveFromChannelsList_FirstOfMany(data, include_uploads_playlist) ==
    IF ~IsList(Get(data, "items")) \/ Len(Get(data, "items").v) = 0
    THEN ResolveRaised("ChannelResolutionError", "Channel not found")
    ELSE ResolvedFromItem(Get(data, "items").v[1], include_uploads_playlist)

\* _resolve_channels_list, from the decoded channels.list response on
ResolveFromChannelsList(data, include_uploads_playlist) ==
    IF ~IsList(Get(data, "items")) \/ Len(Get(data, "items").v) = 0
    THEN ResolveRaised("ChannelResolutionError", "Channel not found")
    ELSE IF Len(Get(data, "items").v) > 1
    THEN ResolveRaised("ChannelResolutionError", "Multiple channels matched unexpectedly")
    ELSE ResolvedFromItem(Get(data, "items").v[1], include_uploads_playlist)

RECURSIVE CandidatesOf(_)
\* the candidates loop of _resolve_best_effort_query over the items list
CandidatesOf(items) ==
    IF Len(items) = 0 THEN <<>>
    ELSE LET item == Head(items)
             id_block == IF IsDict(item) THEN Get(item, "id") ELSE JAbsent
             channel_id == IF IsDict(id_block) THEN Get(id_block, "channelId") ELSE JAbsent
             snippet == IF IsDict(item) THEN Get(item, "snippet") ELSE JAbsent
             title == IF IsDict(snippet) THEN get_str(snippet, "title") ELSE None
             handle == IF IsDict(snippet) THEN get_str(snippet, "channelTitle") ELSE None
         IN IF ~IsDict(item) \/ ~IsDict(id_block)
               \/ ~IsStr(channel_id) \/ channel_id.v = ""
            THEN CandidatesOf(Tail(items))
            ELSE <<ChannelCandidate(channel_id.v, title, handle)>>
                    \o CandidatesOf(Tail(items))

\* mutant: an empty or absent item list yields an empty candidate list
BestEffortFromSearch_NoRaise(data) ==
    LET items == Get(data, "items")
    IN ResolvedChannel("", None, None, None, <<WARN_BEST_EFFORT>>,
                       IF IsList(items) THEN CandidatesOf(items.v) ELSE <<>>)

\* _resolve_best_effort_query, from the decoded search.list response on
BestEffortFromSearch(data) ==
    LET items == Get(data, "items")
    IN IF ~IsList(items) \/ Len(items.v) = 0
       THEN ResolveRaised("ChannelResolutionError", "No channel candidates found")
       ELSE ResolvedChannel("", None, None, None, <<WARN_BEST_EFFORT>>,
                            CandidatesOf(items.v))

\* A backend request: the client operation, its part selector and params.
Request(api, part, params) == [api |-> api, part |-> part, params |-> params]

\* part = ",".join(["snippet", "id"] + (["contentDetails"] if include_uploads_playlist))
ChannelsPart(include_uploads_playlist) ==
    IF include_uploads_playlist THEN "snippet,id,contentDetails" ELSE "snippet,id"

\* mutant: strict mode treats an ambiguous reference as a search query
StrictRejects_Lenient(kind, mode) == FALSE

\* strict mode refuses custom_url and query references
StrictRejects(kind, mode) == mode = "strict" /\ kind \in {"custom_url", "query"}

\* What resolve_channel does up to its (single) backend call: it raises
\* (do = "raise") or issues one request (do = "call").
PlanRaise(exc, at) == [do |-> "raise", exc |-> exc, at |-> at, req |-> Request("", "", <<>>)]

PlanCall(req) == [do |-> "call", exc |-> "", at |-> "", req |-> req]

ChannelsCall(params, include_uploads_playlist) ==
    PlanCall(Request("channels_list", ChannelsPart(include_uploads_playlist), params))

\* resolve_channel from the parsed reference on
PlanForRef(ref, mode, include_uploads_playlist) ==
    IF ref.status # "ok" THEN PlanRaise(ref.status, "parse_channel_ref")
    ELSE IF ref.kind = "custom_url" /\ StrictRejects(ref.kind, mode)
    THEN PlanRaise("ChannelResolutionError", "Custom channel URLs cannot be resolved")
    ELSE IF ref.kind \in {"custom_url", "query"}
    THEN IF StrictRejects("query", mode)
         THEN PlanRaise("ChannelResolutionError", "Ambiguous channel reference")
         ELSE IF StripChars(ref.value, Whitespace) = ""
         THEN PlanRaise("ChannelResolutionError", "Query cannot be empty")
         ELSE PlanCall(Request("search_list", "snippet",
                               [q |-> ref.value, type |-> "channel", maxResults |-> "5"]))
    ELSE IF ref.kind = "handle"
    THEN ChannelsCall([forHandle |-> "@" \o ref.value], include_uploads_playlist)
    ELSE IF ref.kind = "channel_id"
    THEN ChannelsCall([id |-> ref.value], include_uploads_playlist)
    ELSE IF ref.kind = "username"
    THEN ChannelsCall([forUsername |-> ref.value], include_uploads_playlist)
    ELSE PlanRaise("ChannelResolutionError", "Unsupported channel ref kind")

ResolvePlan(channel_ref, mode, include_uploads_playlist) ==
    PlanForRef(parse_channel_ref(channel_ref), mode, include_uploads_playlist)

\* resolve_channel after its backend call returned `data`
ResolveResult(req, data, include_uploads_playlist) ==
    IF req.api = "search_list"
    THEN BestEffortFromSearch(data)
    ELSE ResolveFromChannelsList(data, include_uploads_playlist)

(***************************************************************************)
(* playlist_items_extract.py and _extract_search_video_ids                 *)
(***************************************************************************)
InSeq(x, seq) == \E i \in DOMAIN seq : seq[i] = x

\* the videoId of a playlistItems item (snippet.resourceId.videoId), or None
PlaylistItemVideoId(it) ==
    IF ~IsDict(it) THEN None
    ELSE LET snippet == Get(it, "snippet")
         IN IF ~IsDict(snippet) THEN None
            ELSE LET resource == Get(snippet, "resourceId")
                 IN IF ~IsDict(resource) THEN None
                    ELSE StrOrNone(Get(resource, "videoId"))

RECURSIVE ExtractLoop(_, _)
\* the loop of extract_video_ids (limit=None): skip malformed items and
\* identifiers already seen, keep first-seen order
ExtractLoop(items, out) ==
    IF Len(items) = 0 THEN out
    ELSE LET vid == PlaylistItemVideoId(Head(items))
         IN IF vid = None \/ InSeq(vid, out)
            THEN ExtractLoop(Tail(items), out)
            ELSE ExtractLoop(Tail(items), Append(out, vid))

\* extract_video_ids(items)
extract_video_ids(items) == IF ~IsList(items) THEN <<>> ELSE ExtractLoop(items.v, <<>>)

\* the videoId of a search item (id.videoId), or None
SearchItemVideoId(it) ==
    IF ~IsDict(it) THEN None
    ELSE LET id_block == Get(it, "id")
         IN IF ~IsDict(id_block) THEN None ELSE StrOrNone(Get(id_block, "videoId"))

RECURSIVE SearchExtractLoop(_, _, _)
\* the loop of _extract_search_video_ids: stop at limit, skip malformed items
SearchExtractLoop(items, out, limit) ==
    IF Len(items) = 0 \/ Len(out) >= limit THEN out
    ELSE LET vid == SearchItemVideoId(Head(items))
         IN IF vid = None
            THEN SearchExtractLoop(Tail(items), out, limit)
            ELSE SearchExtractLoop(Tail(items), Append(out, vid), limit)

\* _extract_search_video_ids(items, limit=limit)
extract_search_video_ids(items, limit) ==
    IF ~IsList(items) THEN <<>> ELSE SearchExtractLoop(items.v, <<>>, limit)

\* ids[:n] of Python, for any integer n (a negative n counts from the end)
Take(seq, n) ==
    IF n >= 0 THEN SubSeq(seq, 1, Min(n, Len(seq)))
    ELSE SubSeq(seq, 1, IF Len(seq) + n > 0 THEN Len(seq) + n ELSE 0)

(***************************************************************************)
(* video_classification.py and video_sorting.py                            *)
(***************************************************************************)
IsDigit(c) == HasChar(Digits, c)

\* index of the last character of the digit run of s starting at i (i - 1
\* when s has no digit at i)
DigitRunEnd(s, i) ==
    LET stops == { j \in i .. Len(s) : ~IsDigit(CharAt(s, j)) }
    IN IF stops = {} THEN Len(s)
       ELSE (CHOOSE j \in stops : \A k \in stops : j <= k) - 1

RECURSIVE DecimalValue(_)
\* int(s) for a string of ASCII digits
DecimalValue(s) ==
    IF s = "" THEN 0
    ELSE 10 * DecimalValue(SubSeq(s, 1, Len(s) - 1))
            + (FindAny(Digits, {CharAt(s, Len(s))}, 1) - 1)

\* one optional group (?:(\d+)U)? of _DURATION_RE at position p:
\* the value matched (0 if the group is skipped) and the next position
DurationGroup(s, p, unit) ==
    LET e == DigitRunEnd(s, p)
    IN IF e >= p /\ e < Len(s) /\ CharAt(s, e + 1) = unit
       THEN [val |-> DecimalValue(SubSeq(s, p, e)), next |-> e + 2]
       ELSE [val |-> 0, next |-> p]

\* parse_duration_seconds(duration): matched = FALSE stands for None
Seconds(n) == [matched |-> TRUE, seconds |-> n]
NoSeconds == [matched |-> FALSE, seconds |-> 0]

parse_duration_seconds(duration) ==
    IF ~StartsWith(duration, "PT") THEN NoSeconds
    ELSE LET h == DurationGroup(duration, 3, "H")
             m == DurationGroup(duration, h.next, "M")
             sec == DurationGroup(duration, m.next, "S")
             atEnd == \/ sec.next = Len(duration) + 1
                      \/ (sec.next = Len(duration) /\ CharAt(duration, sec.next) = "\n")
         IN IF atEnd THEN Seconds(h.val * 3600 + m.val * 60 + sec.val) ELSE NoSeconds

\* is_short(video), for a dict video
is_short(video) ==
    LET cd == Get(video, "contentDetails")
    IN IF ~IsDict(cd) THEN FALSE
       ELSE LET duration == Get(cd, "duration")
            IN IF ~IsStr(duration) THEN FALSE
               ELSE LET parsed == parse_duration_seconds(duration.v)
                    IN parsed.matched /\ parsed.seconds <= 60

\* is_live(video), for a dict video
is_live(video) ==
    LET snippet == Get(video, "snippet")
    IN IF ~IsDict(snippet) THEN FALSE
       ELSE LET live == Get(snippet, "liveBroadcastContent")
            IN IsStr(live) /\ live.v \in {"live", "upcoming"}

\* filter_videos raises AttributeError (v.get on a non-dict) when a
\* classifier is applied to an element that is not a dict
FilterRaises(videos, include_shorts, include_live) ==
    \E i \in DOMAIN videos :
        ~IsDict(videos[i]) /\ (~include_shorts \/ ~include_live)

\* filter_videos / _filter_videos, when no element makes it raise
filter_videos(videos, include_shorts, include_live) ==
    LET drop(v) == IF ~IsDict(v) THEN FALSE
                   ELSE \/ (~include_shorts /\ is_short(v))
                        \/ (~include_live /\ is_live(v))
    IN SelectSeq(videos, LAMBDA v : ~drop(v))

\* int(x or 0) for a statistics counter x: ok = FALSE stands for the
\* ValueError of int() on a string that is not a decimal number
IntOrZero(x) ==
    IF x.t = "num" THEN [ok |-> TRUE, key |-> x.v]
    ELSE IF ~IsStr(x) THEN [ok |-> TRUE, key |-> 0]       \* absent or null
    ELSE IF x.v = "" THEN [ok |-> TRUE, key |-> 0]
    ELSE IF \A i \in 1 .. Len(x.v) : IsDigit(CharAt(x.v, i))
         THEN [ok |-> TRUE, key |-> DecimalValue(x.v)]
         ELSE [ok |-> FALSE, key |-> 0]

\* sort_key(video, order_by)
sort_key(video, order_by) ==
    LET st == Get(video, "statistics")
        stats == IF IsDict(st) THEN st ELSE JDict(<<>>)
        c == Get(video, "contentDetails")
        cd == IF IsDict(c) THEN c ELSE JDict(<<>>)
        dur == Get(cd, "duration")
    IN IF order_by \in {"viewCount", "likeCount", "commentCount"}
       THEN IntOrZero(Get(stats, order_by))
       ELSE IF order_by = "duration"
       THEN [ok |-> TRUE,
             key |-> IF IsStr(dur) THEN parse_duration_seconds(dur.v).seconds ELSE 0]
       ELSE [ok |-> TRUE, key |-> 0]

\* the keys sorted() computes, one per element, in input order
SortKeys(videos, order_by) ==
    Tuple([i \in DOMAIN videos |-> sort_key(videos[i], order_by)])

\* sorted(...) raises when sort_key raises for an element
SortRaises(videos, order_by) ==
    \E i \in DOMAIN videos : ~sort_key(videos[i], order_by).ok

\* the position of each element in the output of a stable descending sort:
\* after the elements with a greater key and after the elements with an
\* equal key that precede it in the input
StableDescRank(keys) ==
    Tuple([i \in DOMAIN keys |->
              Cardinality({ j \in DOMAIN keys :
                  \/ keys[j].key > keys[i].key
                  \/ (keys[j].key = keys[i].key /\ j < i) }) + 1])

Permuted(videos, rank) ==
    Tuple([p \in DOMAIN videos |-> videos[CHOOSE i \in DOMAIN videos : rank[i] = p]])

\* sorted(videos, key=lambda v: sort_key(v, order_by), reverse=True)
SortedDesc(videos, order_by) ==
    Permuted(videos, StableDescRank(SortKeys(videos, order_by)))

(***************************************************************************)
(* The backend (IYouTubeClient) as seen by the callers: each operation     *)
(* returns one of the decoded responses below, or raises YouTubeApiError.  *)
(* The responses are tuples, indexed by the choice of the backend.         *)
(***************************************************************************)
PLAYLIST_PAGE_SIZE == 50     \* "maxResults": "50"
VIDEOS_BATCH_SIZE == 50      \* range(0, len(ids), 50)

VideoId(n) == "v" \o ToString(n)

ChannelSnippet == JDict([title |-> JStr("T"), customUrl |-> JStr("@Handle")])
UploadsDetails == JDict([relatedPlaylists |-> JDict([uploads |-> JStr("UU_x")])])

\* channels.list responses: no items key, a non-list, no match, one
\* well-formed channel, channels lacking the uploads playlist or a usable id,
\* an item that is not a dict, two matches
ChannelsResponses ==
    << JDict([kind |-> JStr("youtube#channelListResponse")]),
       JDict([items |-> JOther]),
       JDict([items |-> JList(<<>>)]),
       JDict([items |-> JList(<< JDict([id |-> JStr("UC_x"), snippet |-> ChannelSnippet,
                                        contentDetails |-> UploadsDetails]) >>)]),
       JDict([items |-> JList(<< JDict([id |-> JStr("UC_x"), snippet |-> ChannelSnippet]) >>)]),
       JDict([items |-> JList(<< JDict([snippet |-> ChannelSnippet,
                                        contentDetails |-> UploadsDetails]) >>)]),
       JDict([items |-> JList(<< JDict([id |-> JNum(7),
                                        contentDetails |-> UploadsDetails]) >>)]),
       JDict([items |-> JList(<< JDict([id |-> JStr(""), snippet |-> JOther,
                                        contentDetails |-> UploadsDetails]) >>)]),
       JDict([items |-> JList(<< JStr("junk") >>)]),
       JDict([items |-> JList(<< JDict([id |-> JStr("UC_x"), snippet |-> ChannelSnippet]),
                                 JDict([id |-> JStr("UC_y"), snippet |-> ChannelSnippet]) >>)]) >>

ChannelHit(cid, title) ==
    JDict([id |-> JDict([channelId |-> JStr(cid)]),
           snippet |-> JDict([title |-> JStr(title), channelTitle |-> JStr(title)])])

\* search.list (type=channel) responses: no items key, a non-list, no hit,
\* hits, hits mixed with malformed items, malformed items only
ChannelSearchResponses ==
    << JDict([kind |-> JStr("youtube#searchListResponse")]),
       JDict([items |-> JOther]),
       JDict([items |-> JList(<<>>)]),
       JDict([items |-> JList(<< ChannelHit("UC_1", "A") >>)]),
       JDict([items |-> JList(<< ChannelHit("UC_2", "B"), ChannelHit("UC_1", "A") >>)]),
       JDict([items |-> JList(<< JStr("junk"), ChannelHit("UC_1", "A"),
                                 JDict([id |-> JOther]), ChannelHit("UC_2", "B"),
                                 JDict([id |-> JDict([channelId |-> JStr("")])]) >>)]),
       JDict([items |-> JList(<< JDict([id |-> JDict([kind |-> JStr("youtube#channel")])]),
                                 JDict([id |-> JDict([channelId |-> JNum(3)])]) >>)]),
       JDict([items |-> JList(<< JOther >>)]) >>

PlaylistItem(vid) ==
    JDict([snippet |-> JDict([resourceId |-> JDict([videoId |-> JStr(vid)])])])

SearchItem(vid) == JDict([id |-> JDict([videoId |-> JStr(vid)])])

\* nextPageToken of a list response: absent, a token, empty, not a string
TokenValues == << JAbsent, JStr("TOK"), JStr(""), JOther >>

\* nextPageToken of the responses to the page loop of local_sort: not a
\* string, a token, the empty string
LoopTokenValues == << JAbsent, JStr("TOK"), JStr("") >>

\* items of a playlistItems.list response; k pages were fetched before (a full
\* page holds 50 identifiers not seen on the pages before it)
PlaylistItemLists(k) ==
    << JAbsent,
       JList(<<>>),
       JList(<< PlaylistItem("v1") >>),
       JList(<< PlaylistItem("v1"), PlaylistItem("v2"), PlaylistItem("v3") >>),
       JList(<< PlaylistItem("v1"), JStr("junk"), PlaylistItem("v1"),
                JDict([snippet |-> JDict([resourceId |-> JOther])]), PlaylistItem("v2") >>),
       JList(<< JDict([snippet |-> JOther]), JOther, PlaylistItem(""),
                JDict([snippet |-> JDict([resourceId |-> JDict([videoId |-> JNum(5)])])]) >>),
       JList(Tuple([i \in 1 .. PLAYLIST_PAGE_SIZE |->
                       PlaylistItem(VideoId(PLAYLIST_PAGE_SIZE * k + i))])) >>

\* items of a search.list (type=video) response
SearchItemLists ==
    << JAbsent,
       JList(<<>>),
       JList(<< SearchItem("v1") >>),
       JList(<< SearchItem("v1"), SearchItem("v2"), SearchItem("v3") >>),
       JList(<< SearchItem("v1"), JStr("junk"), SearchItem("v1"),
                JDict([id |-> JOther]), SearchItem("v2") >>),
       JList(<< JDict([id |-> JDict([kind |-> JStr("youtube#channel")])]), JOther,
                SearchItem("") >>),
       JList(Tuple([i \in 1 .. PLAYLIST_PAGE_SIZE |-> SearchItem(VideoId(i))])) >>

ListResponse(items, tok) ==
    IF items.t = "absent"
    THEN (IF tok.t = "absent" THEN JDict(<<>>) ELSE JDict([nextPageToken |-> tok]))
    ELSE (IF tok.t = "absent" THEN JDict([items |-> items])
          ELSE JDict([items |-> items, nextPageToken |-> tok]))

DurationValues == << JStr("PT30S"), JStr("PT5M"), JStr("PT1H2M3S"), JStr("bogus"), JAbsent >>
LiveValues == << JStr("none"), JStr("live"), JAbsent, JStr("upcoming") >>
CountValues == << JStr("10"), JStr("5"), JAbsent, JStr("10"), JNum(7), JStr("") >>

Pick(values, i) == values[(i % Len(values)) + 1]

\* the record videos.list returns for identifier vid; n selects its attributes
VideoRecord(vid, n) ==
    JDict([id |-> JStr(vid),
           contentDetails |-> JDict([duration |-> Pick(DurationValues, n)]),
           snippet |-> JDict([liveBroadcastContent |-> Pick(LiveValues, n)]),
           statistics |-> JDict([viewCount |-> Pick(CountValues, n),
                                 likeCount |-> Pick(CountValues, n + 1),
                                 commentCount |-> Pick(CountValues, n + 2)])])

VideosShapes == {"records", "no_items", "empty", "with_junk", "repeated", "bare"}

\* a videos.list response for the identifiers of the request
VideosResponse(batch, shape) ==
    LET recs == Tuple([i \in 1 .. Len(batch) |-> VideoRecord(batch[i], i)])
    IN CASE shape = "records" -> JDict([items |-> JList(recs)])
         [] shape = "no_items" -> JDict(<<>>)
         [] shape = "empty" -> JDict([items |-> JList(<<>>)])
         [] shape = "with_junk" -> JDict([items |-> JList(<<JStr("junk")>> \o recs)])
         [] shape = "repeated" -> JDict([items |-> JList(recs \o recs)])
         [] shape = "bare" ->
              JDict([items |-> JList(Tuple([i \in 1 .. Len(batch) |->
                           JDict([id |-> JStr(batch[i]),
                                  statistics |-> JDict([viewCount |-> JStr("abc")])])]))])

(***************************************************************************)
(* Specification of one estimate call: the arguments are drawn at Init,    *)
(* the single action applies the function.                                 *)
(***************************************************************************)
MaxRequested == 120

OrderStrategies == {"uploads_playlist", "local_sort", "search_api"}

\* requested_max_videos: every value up to MaxRequested and the values around
\* the 500 cap and the page boundaries above it
RequestedInputs ==
    (-1 .. MaxRequested) \cup {199, 200, 201, 499, 500, 501, 549, 550, 551, 1000, 10000}

BudgetVideoInputs == {1, 50, 120, 200, 600, 10000}
BudgetPageInputs == {1, 2, 3, 10, 11, 100}
BudgetUnitInputs == {1, 2, 6, 300, 1000, 10000}

BudgetInputs ==
    { QuotaBudget(mv, mp, mq) :
        mv \in BudgetVideoInputs, mp \in BudgetPageInputs, mq \in BudgetUnitInputs }

Pending == [status |-> "pending", estimated_units |-> 0, strategy |-> None, notes |-> <<>>]

(***************************************************************************)
(* One call of resolve_channel, or of a listing pipeline:                  *)
(*   uploads_playlist  list_channel_videos_page                            *)
(*   local_sort        list_channel_videos_local_sorted                    *)
(*   search_api        list_channel_videos_search_api                      *)
(*   channel_search    search_channel_videos_page                          *)
(* A step of the call runs the code up to and including its next backend   *)
(* request and everything the code does with the response before the       *)
(* request after it.                                                       *)
(***************************************************************************)
ListingOps == {"uploads_playlist", "local_sort", "search_api", "channel_search"}

\* the strategy each pipeline passes to estimate_channel_videos_quota
StrategyOf(o) == IF o = "channel_search" THEN "search_api" ELSE o

\* Python truthiness of an optional string argument ("if page_token:")
Truthy(x) == x # None /\ x # ""

ChannelVideosPage(items, next_page_token, est, trunc, applied_max_videos) ==
    [status |-> "ok", at |-> "", items |-> items, next_page_token |-> next_page_token,
     quota_estimate |-> est, truncated |-> trunc,
     applied_max_videos |-> applied_max_videos]

CallRaised(exc, at) == [status |-> exc, at |-> at]

NoResult == [status |-> "pending", at |-> ""]

\* a variant without the page_token check of local_sort
ArgumentError_TokenAccepted(o, a) ==
    CASE o = "search_api" /\ a.order_by \notin {"date", "viewCount"} ->
            "search_api supports only order_by in {'date','viewCount'}"
      [] o = "channel_search" /\ (a.query = "" \/ StripChars(a.query, Whitespace) = "") ->
            "query is required"
      [] OTHER -> ""

\* a variant without the order_by check of search_api and the query check
\* of the channel search
ArgumentError_LocalOnly(o, a) ==
    IF o = "local_sort" /\ Truthy(a.page_token)
    THEN "page_token is not supported for local_sort"
    ELSE ""

\* the argument checks a pipeline makes before the estimate
ArgumentError(o, a) ==
    CASE o = "local_sort" /\ Truthy(a.page_token) ->
            "page_token is not supported for local_sort"
      [] o = "search_api" /\ a.order_by \notin {"date", "viewCount"} ->
            "search_api supports only order_by in {'date','viewCount'}"
      [] o = "channel_search" /\ (a.query = "" \/ StripChars(a.query, Whitespace) = "") ->
            "query is required"
      [] OTHER -> ""

\* mutant: a failed estimate does not stop the pipeline
EstimateStops_Ignored(est) == FALSE

\* an exception of estimate_channel_videos_quota leaves the pipeline
EstimateStops(est) == est.status # "ok"

Fail(exc, at) ==
    /\ pc' = "failed"
    /\ result' = CallRaised(exc, at)

\* list_channel_videos: pass the arguments on to the pipeline of the strategy
Dispatch ==
    /\ pc = "dispatch"
    /\ op = "list_channel_videos"
    /\ IF f_strategy \in {"uploads_playlist", "local_sort", "search_api"}
       THEN /\ op' = f_strategy
            /\ pc' = "start"
            /\ UNCHANGED result
       ELSE Fail("ValueError", "Unknown strategy") /\ UNCHANGED op
    /\ UNCHANGED <<args, f_strategy, calls, quota_est, resolve_data, resolved, l_ids, l_token,
                   list_resp, l_pages, l_truncated, l_videos>>

\* argument checks and the pre-flight estimate (include_video_details=True)
Preflight ==
    /\ pc = "start"
    /\ op \in ListingOps
    /\ LET err == ArgumentError(op, args)
           est == estimate_channel_videos_quota(StrategyOf(op), args.max_videos,
                                                args.budget, TRUE)
       IN IF err # ""
          THEN Fail("ValueError", err) /\ UNCHANGED quota_est
          ELSE IF EstimateStops(est)
          THEN Fail(est.status, "estimate_channel_videos_quota") /\ UNCHANGED quota_est
          ELSE /\ quota_est' = est
               /\ pc' = "resolve"
               /\ UNCHANGED result
    /\ UNCHANGED <<op, args, f_strategy, calls, resolve_data, resolved, l_ids, l_token,
                   list_resp, l_pages, l_truncated, l_videos>>

\* mode and include_uploads_playlist of the resolve_channel call
ResolveMode == IF op = "resolve_channel" THEN args.mode ELSE "strict"
ResolveUploads ==
    IF op = "resolve_channel" THEN args.include_uploads_playlist
    ELSE op \in {"uploads_playlist", "local_sort"}

\* what the caller does with a ResolvedChannel
AfterResolve(r) ==
    IF op = "resolve_channel"
    THEN pc' = "done" /\ result' = r
    ELSE IF op \in {"uploads_playlist", "local_sort"} /\ r.uploads_playlist_id = None
    THEN IF op = "uploads_playlist"
         THEN Fail("ChannelInventoryError", "uploadsPlaylistId not available for this channel")
         ELSE Fail("ValueError", "uploadsPlaylistId not available")
    ELSE pc' = "list" /\ UNCHANGED result

\* resolve_channel: parse, dispatch on the kind, at most one backend request
ResolveChannel ==
    /\ pc = "resolve"
    /\ LET plan == ResolvePlan(args.channel_ref, ResolveMode, ResolveUploads)
       IN IF plan.do = "raise"
          THEN Fail(plan.exc, plan.at) /\ UNCHANGED <<calls, resolve_data, resolved>>
          ELSE
            /\ calls' = Append(calls, plan.req)
            /\ \/ /\ Fail("YouTubeApiError", plan.req.api)
                  /\ UNCHANGED <<resolve_data, resolved>>
               \/ \E i \in 1 .. (IF plan.req.api = "search_list"
                                 THEN Len(ChannelSearchResponses)
                                 ELSE Len(ChannelsResponses)) :
                     LET data == IF plan.req.api = "search_list"
                                 THEN ChannelSearchResponses[i]
                                 ELSE ChannelsResponses[i]
                         r == ResolveResult(plan.req, data, ResolveUploads)
                     IN /\ resolve_data' = data
                        /\ IF r.status # "ok"
                           THEN Fail(r.status, r.at) /\ UNCHANGED resolved
                           ELSE resolved' = r /\ AfterResolve(r)
    /\ UNCHANGED <<op, args, f_strategy, quota_est, l_ids, l_token, list_resp, l_pages,
                   l_truncated, l_videos>>

\* params of the list request, with pageToken only when the token is truthy
WithPageToken(params, tok) ==
    IF Truthy(tok)
    THEN [k \in DOMAIN params \cup {"pageToken"} |->
             IF k = "pageToken" THEN tok ELSE params[k]]
    ELSE params

VideosPart ==
    IF args.parts_level = "basic"
    THEN "snippet,statistics,contentDetails"
    ELSE "snippet,statistics,contentDetails,liveStreamingDetails,status"

\* the page returned when the list response yields no identifier
EmptyPage == ChannelVideosPage(<<>>, None, quota_est, FALSE, 0)

\* a variant that keeps every identifier of the page
TruncateIds_NoCut(found, max_videos) == found

\* "if max_videos < len(video_ids): video_ids = video_ids[:max_videos]"
TruncateIds(found, max_videos) ==
    IF max_videos < Len(found) THEN Take(found, max_videos) ELSE found

\* uploads_playlist: one playlistItems.list page, extraction, truncation
FetchUploadsPage ==
    /\ pc = "list"
    /\ op = "uploads_playlist"
    /\ calls' = Append(calls,
          Request("playlist_items_list", "snippet,contentDetails",
                  WithPageToken([playlistId |-> resolved.uploads_playlist_id,
                                 maxResults |-> "50"], args.page_token)))
    /\ \/ /\ Fail("YouTubeApiError", "playlist_items_list")
          /\ UNCHANGED <<l_ids, l_token, list_resp, l_truncated>>
       \/ \E i \in 1 .. Len(PlaylistItemLists(0)), t \in 1 .. Len(TokenValues) :
             LET playlist_resp == ListResponse(PlaylistItemLists(0)[i], TokenValues[t])
                 found == extract_video_ids(Get(playlist_resp, "items"))
                 cut == args.max_videos < Len(found)
                 video_ids == TruncateIds(found, args.max_videos)
             IN /\ l_ids' = video_ids
                /\ l_truncated' = cut
                /\ l_token' = StrOrNone(Get(playlist_resp, "nextPageToken"))
                /\ list_resp' = playlist_resp
                /\ IF Len(video_ids) = 0
                   THEN pc' = "done" /\ result' = EmptyPage
                   ELSE pc' = "videos" /\ UNCHANGED result
    /\ UNCHANGED <<op, args, f_strategy, quota_est, resolve_data, resolved, l_pages,
                   l_videos>>

\* the tail of local_sort: filter, sort, build the page
LocalSortedPage(vids, kept, trunc) ==
    IF FilterRaises(vids, args.include_shorts, args.include_live)
    THEN CallRaised("AttributeError", "filter_videos")
    ELSE LET filtered == filter_videos(vids, args.include_shorts, args.include_live)
             keys == SortKeys(filtered, args.order_by)
         IN IF \E i \in DOMAIN keys : ~keys[i].ok
            THEN CallRaised("ValueError", "sort_key")
            ELSE ChannelVideosPage(Permuted(filtered, StableDescRank(keys)), None,
                                   quota_est, trunc, Len(kept))

\* a variant of the truncation flag that ignores the outstanding token
LocalTruncated_CountOnly(n_ids, tok) == n_ids > args.max_videos

\* local_sort's truncation flag: more identifiers accumulated than max_videos,
\* or the last response still carried a token
LocalTruncated(n_ids, tok) == n_ids > args.max_videos \/ tok # None

\* a variant of the while condition without the page limit
LoopContinues_NoPageLimit(n_ids, n_pages, tok) ==
    tok # None /\ n_ids < args.max_videos

\* local_sort fetches another page: the response carried a token and the
\* while condition len(ids) < max_videos and pages < budget.max_pages holds
LoopContinues(n_ids, n_pages, tok) ==
    tok # None /\ n_ids < args.max_videos /\ n_pages < args.budget.max_pages

\* local_sort: one iteration of the while loop; on leaving the loop the
\* identifiers are cut to max_videos and truncated is computed. The loop is
\* entered with ids empty and pages = 0: max_videos >= 1 (the estimate has
\* raised otherwise) and budget.max_pages >= 1 (ListingBudgets).
FetchLocalPage ==
    /\ pc = "list"
    /\ op = "local_sort"
    /\ calls' = Append(calls,
          Request("playlist_items_list", "snippet,contentDetails",
                  WithPageToken([playlistId |-> resolved.uploads_playlist_id,
                                 maxResults |-> "50"], l_token)))
    /\ \/ /\ Fail("YouTubeApiError", "playlist_items_list")
          /\ UNCHANGED <<l_ids, l_token, list_resp, l_pages, l_truncated>>
       \/ \E i \in 1 .. Len(PlaylistItemLists(l_pages)), t \in 1 .. Len(LoopTokenValues) :
             LET resp == ListResponse(PlaylistItemLists(l_pages)[i], LoopTokenValues[t])
                 tok == StrOrNone(Get(resp, "nextPageToken"))
             IN
             \E all \in { l_ids \o extract_video_ids(Get(resp, "items")) } :
             LET kept == Take(all, args.max_videos)
                 trunc == LocalTruncated(Len(all), tok)
             IN /\ l_pages' = l_pages + 1
                /\ l_token' = tok
                /\ list_resp' = resp
                /\ IF LoopContinues(Len(all), l_pages + 1, tok)
                   THEN /\ l_ids' = all
                        /\ UNCHANGED <<pc, result, l_truncated>>
                   ELSE /\ l_ids' = kept
                        /\ l_truncated' = trunc
                        /\ IF Len(kept) = 0
                           THEN /\ result' = LocalSortedPage(<<>>, kept, trunc)
                                /\ pc' = "done"
                           ELSE pc' = "videos" /\ UNCHANGED result
    /\ UNCHANGED <<op, args, f_strategy, quota_est, resolve_data, resolved, l_videos>>

\* search_api and channel search: one search.list page, extraction
FetchSearchPage ==
    /\ pc = "list"
    /\ op \in {"search_api", "channel_search"}
    /\ calls' = Append(calls,
          Request("search_list", "snippet",
                  WithPageToken(
                      IF op = "search_api"
                      THEN [channelId |-> resolved.channel_id, type |-> "video",
                            order |-> args.order_by, maxResults |-> "50"]
                      ELSE [channelId |-> resolved.channel_id, type |-> "video",
                            q |-> args.query, order |-> args.order_by,
                            maxResults |-> "50"],
                      args.page_token)))
    /\ \/ /\ Fail("YouTubeApiError", "search_list")
          /\ UNCHANGED <<l_ids, l_token, list_resp>>
       \/ \E i \in 1 .. Len(SearchItemLists), t \in 1 .. Len(TokenValues) :
             LET resp == ListResponse(SearchItemLists[i], TokenValues[t])
                 found == extract_search_video_ids(Get(resp, "items"), args.max_videos)
             IN /\ l_ids' = found
                /\ l_token' = StrOrNone(Get(resp, "nextPageToken"))
                /\ list_resp' = resp
                /\ IF Len(found) = 0
                   THEN pc' = "done" /\ result' = EmptyPage
                   ELSE pc' = "videos" /\ UNCHANGED result
    /\ UNCHANGED <<op, args, f_strategy, quota_est, resolve_data, resolved, l_pages,
                   l_truncated, l_videos>>

\* ",".join(batch)
RECURSIVE JoinIds(_)
JoinIds(batch) ==
    IF Len(batch) = 0 THEN ""
    ELSE IF Len(batch) = 1 THEN batch[1]
    ELSE batch[1] \o "," \o JoinIds(Tail(batch))

\* uploads_playlist, search_api, channel search: one videos.list request for
\* all identifiers, then filter and build the page
FetchVideos ==
    /\ pc = "videos"
    /\ op \in {"uploads_playlist", "search_api", "channel_search"}
    /\ calls' = Append(calls, Request("videos_list", VideosPart, [id |-> JoinIds(l_ids)]))
    /\ \/ Fail("YouTubeApiError", "videos_list")
       \/ \E shape \in VideosShapes :
             LET videos_resp == VideosResponse(l_ids, shape)
                 items == Get(videos_resp, "items")
                 vids == IF IsList(items) THEN items.v ELSE <<>>
             IN IF FilterRaises(vids, args.include_shorts, args.include_live)
                THEN Fail("AttributeError", "filter_videos")
                ELSE /\ pc' = "done"
                     /\ result' = ChannelVideosPage(
                            filter_videos(vids, args.include_shorts, args.include_live),
                            l_token, quota_est,
                            IF op = "uploads_playlist" THEN l_truncated ELSE FALSE,
                            Len(l_ids))
    /\ UNCHANGED <<op, args, f_strategy, quota_est, resolve_data, resolved, l_ids, l_token,
                   list_resp, l_pages, l_truncated, l_videos>>

\* the number of videos.list requests issued so far
BatchesDone == Cardinality({ i \in DOMAIN calls : calls[i].api = "videos_list" })

\* local_sort: one iteration of the batch loop; after the last batch the
\* records are filtered and sorted and the page is built
FetchLocalBatch ==
    /\ pc = "videos"
    /\ op = "local_sort"
    /\ LET first == BatchesDone * VIDEOS_BATCH_SIZE + 1
           batch == SubSeq(l_ids, first, Min(first + VIDEOS_BATCH_SIZE - 1, Len(l_ids)))
           last == first + VIDEOS_BATCH_SIZE > Len(l_ids)
       IN /\ calls' = Append(calls, Request("videos_list", VideosPart,
                                            [id |-> JoinIds(batch)]))
          /\ \/ Fail("YouTubeApiError", "videos_list") /\ UNCHANGED l_videos
             \/ \E shape \in VideosShapes :
                   LET vresp == VideosResponse(batch, shape)
                       items == Get(vresp, "items")
                       got == IF IsList(items)
                              THEN SelectSeq(items.v, LAMBDA v : IsDict(v))
                              ELSE <<>>
                   IN /\ l_videos' = l_videos \o got
                      /\ IF last
                         THEN \E page \in { LocalSortedPage(l_videos \o got, l_ids,
                                                              l_truncated) } :
                                 /\ result' = page
                                 /\ pc' = IF page.status = "ok" THEN "done" ELSE "failed"
                         ELSE UNCHANGED <<pc, result>>
    /\ UNCHANGED <<op, args, f_strategy, quota_est, resolve_data, resolved, l_ids, l_token,
                   list_resp, l_pages, l_truncated>>

\* the state of the walk variables while no walk is modelled
NoWalk ==
    /\ w_playlist = <<>>
    /\ w_max = 0
    /\ w_token = None
    /\ w_pc = "idle"
    /\ w_resp = JAbsent
    /\ w_fetched = <<>>

\* the state of the client variables while no client operation is modelled
NoClientCall ==
    /\ c_endpoint = "idle"
    /\ c_part = ""
    /\ c_config = [max_retries |-> 0, initial_backoff_s |-> 0, max_backoff_s |-> 0]
    /\ c_pc = "idle"
    /\ attempt = 0
    /\ backoff = 0
    /\ c_slept = <<>>
    /\ c_last = [kind |-> "none", status |-> 0, reason |-> None]
    /\ c_result = [status |-> "pending", http_status |-> 0, reason |-> None]

\* the state of the call variables while no call is modelled
\* the state of the pure-call variables while no such call is modelled
NoPureCall ==
    /\ p_fn = "idle"
    /\ p_in = <<>>
    /\ p_out = <<>>

NoCall ==
    /\ op = "idle"
    /\ args = <<>>
    /\ pc = "idle"
    /\ calls = <<>>
    /\ quota_est = Pending
    /\ resolve_data = JAbsent
    /\ resolved = NotResolved
    /\ l_ids = <<>>
    /\ l_token = None
    /\ list_resp = JAbsent
    /\ f_strategy = None
    /\ l_pages = 0
    /\ l_truncated = FALSE
    /\ l_videos = <<>>
    /\ result = NoResult

InitEstimate ==
    /\ NoCall
    /\ NoPureCall
    /\ NoClientCall
    /\ NoWalk
    /\ q_strategy \in OrderStrategies
    /\ q_requested \in RequestedInputs
    /\ q_budget \in BudgetInputs
    /\ q_details \in BOOLEAN
    /\ q_result = Pending

Estimate ==
    /\ q_result = Pending
    /\ q_result' = estimate_channel_videos_quota(q_strategy, q_requested, q_budget, q_details)
    /\ UNCHANGED <<q_strategy, q_requested, q_budget, q_details>>
    /\ UNCHANGED <<call_vars, pure_vars, client_vars, walk_vars>>

NextEstimate == Estimate

SpecEstimate == InitEstimate /\ [][NextEstimate]_vars

(***************************************************************************)
(* The calls of the model: the entry point and its arguments are drawn at  *)
(* Init.                                                                   *)
(***************************************************************************)
\* channel references given to resolve_channel called on its own
ResolveRefInputs ==
    { "@Handle", " @Handle ", "UCabcdefghijklmnop", "https://www.youtube.com/channel/UCx",
      "youtube.com/user/Bob", "https://www.youtube.com/c/Foo", "m.youtube.com/c/Foo/",
      "Some Channel Name", "Acme", "https://www.youtube.com/watch?v=1",
      "https://example.com/@a", "", "  ", "@", "https://www.youtube.com/c/", "@a/b" }

\* channel references given to the listing pipelines: a handle, and
\* references that resolve_channel refuses in strict mode
ListingRefInputs == { "@Handle", "https://www.youtube.com/c/Foo", "Acme", "" }

MaxVideosInputs(o) ==
    IF o = "local_sort" THEN {0, 1, 2, 3, 51} ELSE {0, 1, 2, 3, 51, 120}

ListingBudgets ==
    { QuotaBudget(200, 3, 1000), QuotaBudget(200, 1, 1000), QuotaBudget(2, 2, 1000),
      QuotaBudget(200, 2, 2) }

PageTokenInputs(o) == IF o = "uploads_playlist" THEN {None, "", "TOK"} ELSE {None, "TOK"}

\* include_shorts, include_live, parts_level
FlagInputs == { <<TRUE, TRUE, "basic">>, <<FALSE, FALSE, "full">> }

OrderByInputs(o) ==
    CASE o = "local_sort" -> {"viewCount", "duration"}
      [] o = "search_api" -> {"date", "likeCount"}
      [] o = "channel_search" -> {"relevance"}
      [] OTHER -> {"date"}

QueryInputs(o) == IF o = "channel_search" THEN {"cats", "", "  "} ELSE {""}

Args(ref, mode, uploads, max_videos, page_token, order_by, query, flags, budget) ==
    [channel_ref |-> ref, mode |-> mode, include_uploads_playlist |-> uploads,
     max_videos |-> max_videos, page_token |-> page_token, order_by |-> order_by,
     query |-> query, include_shorts |-> flags[1], include_live |-> flags[2],
     parts_level |-> flags[3], budget |-> budget]

\* the strategy values list_channel_videos is called with
FacadeStrategies == {"uploads_playlist", "local_sort", "search_api", "trending"}

\* the arguments list_channel_videos is called with
FacadeArgs ==
    { Args("@Handle", "strict", TRUE, 1, tok, ob, "", <<TRUE, TRUE, "basic">>,
           QuotaBudget(200, 1, 1000)) :
        tok \in {None, "TOK"}, ob \in {"date", "viewCount", "likeCount"} }

\* local_sort called with page_token = "" (falsy for "if page_token:")
EmptyTokenArgs ==
    { Args("@Handle", "strict", TRUE, mv, "", "viewCount", "", <<TRUE, TRUE, "basic">>,
           QuotaBudget(200, 1, 1000)) : mv \in {0, 1} }

\* the combinations of order_by, flags and budget a pipeline is called with:
\* every order_by and flags with the first budget, every budget with
\* include_shorts = include_live = TRUE (and order_by = "viewCount" for
\* local_sort)
Combined(o, ob, fl, bu) ==
    \/ bu = QuotaBudget(200, 3, 1000)
    \/ fl = <<TRUE, TRUE, "basic">> /\ (o = "local_sort" => ob = "viewCount")

ArgsOf(o) ==
    IF o = "resolve_channel"
    THEN { Args(ref, mode, uploads, 1, None, "date", "", <<TRUE, TRUE, "basic">>,
                QuotaBudget(200, 10, 1000)) :
             ref \in ResolveRefInputs, mode \in {"strict", "best_effort"},
             uploads \in BOOLEAN }
    ELSE { Args(x[1], "strict", TRUE, x[2], x[3], x[4], x[5], x[6], x[7]) :
             x \in { y \in ListingRefInputs \X MaxVideosInputs(o) \X PageTokenInputs(o)
                            \X OrderByInputs(o) \X QueryInputs(o) \X FlagInputs
                            \X ListingBudgets : Combined(o, y[4], y[6], y[7]) } }
         \cup (IF o = "local_sort" THEN EmptyTokenArgs ELSE {})

\* the state of the estimate variables while no estimate call is modelled
NoEstimateCall ==
    /\ q_strategy = "uploads_playlist"
    /\ q_requested = 1
    /\ q_budget = QuotaBudget(200, 10, 1000)
    /\ q_details = FALSE
    /\ q_result = Pending

Init ==
    /\ NoEstimateCall
    /\ NoPureCall
    /\ NoClientCall
    /\ NoWalk
    /\ \/ /\ op \in ListingOps \cup {"resolve_channel"}
          /\ args \in ArgsOf(op)
          /\ f_strategy = None
          /\ pc = IF op = "resolve_channel" THEN "resolve" ELSE "start"
       \/ /\ op = "list_channel_videos"
          /\ args \in FacadeArgs
          /\ f_strategy \in FacadeStrategies
          /\ pc = "dispatch"
    /\ calls = <<>>
    /\ quota_est = Pending
    /\ resolve_data = JAbsent
    /\ resolved = NotResolved
    /\ l_ids = <<>>
    /\ l_token = None
    /\ list_resp = JAbsent
    /\ l_pages = 0
    /\ l_truncated = FALSE
    /\ l_videos = <<>>
    /\ result = NoResult

Next ==
    \/ (Dispatch /\ UNCHANGED <<est_vars, pure_vars, client_vars, walk_vars>>)
    \/ (Preflight /\ UNCHANGED <<est_vars, pure_vars, client_vars, walk_vars>>)
    \/ (ResolveChannel /\ UNCHANGED <<est_vars, pure_vars, client_vars, walk_vars>>)
    \/ (FetchUploadsPage /\ UNCHANGED <<est_vars, pure_vars, client_vars, walk_vars>>)
    \/ (FetchLocalPage /\ UNCHANGED <<est_vars, pure_vars, client_vars, walk_vars>>)
    \/ (FetchSearchPage /\ UNCHANGED <<est_vars, pure_vars, client_vars, walk_vars>>)
    \/ (FetchVideos /\ UNCHANGED <<est_vars, pure_vars, client_vars, walk_vars>>)
    \/ (FetchLocalBatch /\ UNCHANGED <<est_vars, pure_vars, client_vars, walk_vars>>)

Spec == Init /\ [][Next]_vars

(***************************************************************************)
(* One call of parse_channel_ref on an input drawn at Init. The inputs are *)
(* handles, channel-id shaped strings, free text and urls put together     *)
(* from a scheme, a host, a path and surrounding whitespace. No input has  *)
(* a host with both "[" and "]" (an IP literal, which urlparse validates   *)
(* with the ipaddress module).                                             *)
(***************************************************************************)
UrlSchemeInputs == {"", "https://", "http://", "HTTPS://", "ftp://", "//"}

UrlHostInputs ==
    {"youtube.com", "www.youtube.com", "m.youtube.com", "WWW.YouTube.com",
     "example.com", "youtube.com:443", "[youtube.com"}

UrlPathInputs ==
    {"", "/", "/@h", "/@", "/@h/", "/@h/videos", "/@h?x=1", "/@h#f", "/channel/UCx",
     "/channel/", "/channel", "/user/Bob/", "/user//", "/c/Foo", "/c/Foo;p", "/c/",
     "/watch?v=1", "/some/unknown/path"}

PaddingInputs == {<<"", "">>, <<" ", "">>, <<"\t", " \n">>}

PlainInputs ==
    {"", " ", "\t\n", "@", "@ ", "@h", "@ h", "@@h", "@h/b", "@h?b", "@h#b", "@h b",
     "UCabcdefghijklmn", "UCabcdefghijklm", "UCabcdefghijklmn/x?y", "UCabcdefghij klmnop",
     "UCyoutube.com/@h", "ucabcdefghijklmnop", "Some Channel Name", "Acme", "/c/Foo",
     "/@h", "mailto:a@youtube.com", "a/b", "a?b#c"}

ParseInputs ==
    { pad[1] \o text \o pad[2] :
        pad \in PaddingInputs,
        text \in PlainInputs
                   \cup { sc \o host \o path :
                            sc \in UrlSchemeInputs, host \in UrlHostInputs,
                            path \in UrlPathInputs } }

InitParse ==
    /\ NoEstimateCall
    /\ NoCall
    /\ NoClientCall
    /\ NoWalk
    /\ p_fn = "parse_channel_ref"
    /\ p_in \in ParseInputs
    /\ p_out = <<>>

Parse ==
    /\ p_fn = "parse_channel_ref"
    /\ p_out = <<>>
    /\ p_out' = parse_channel_ref(p_in)
    /\ UNCHANGED <<p_fn, p_in, est_vars, call_vars, client_vars, walk_vars>>

NextParse == Parse

SpecParse == InitParse /\ [][NextParse]_vars

(***************************************************************************)
(* filter_videos called on its own.                                        *)
(***************************************************************************)

\* the longest sequence of videos filter_videos is called with
MaxFiltered == 2

\* a video record with the two attributes the classifiers read
ClassifiedRecord(duration, live) ==
    JDict([contentDetails |-> JDict([duration |-> duration]),
           snippet |-> JDict([liveBroadcastContent |-> live])])

FilterDurationInputs ==
    << JStr("PT30S"), JStr("PT60S"), JStr("PT61S"), JStr("PT1M"), JStr("PT1M1S"),
       JStr("PT1H"), JStr("PT"), JStr("PT30S\n"), JStr("PT30"), JStr("P1DT5S"),
       JStr("bogus"), JOther, JAbsent >>

FilterLiveInputs == << JStr("live"), JStr("upcoming"), JStr("LIVE"), JOther, JAbsent >>

\* the elements of videos: records, records without the nested dicts, and an
\* element that is not a dict
FilterItemInputs ==
    Tuple([i \in DOMAIN FilterDurationInputs |->
              ClassifiedRecord(FilterDurationInputs[i], JStr("none"))])
      \o Tuple([i \in DOMAIN FilterLiveInputs |->
                   ClassifiedRecord(JStr("PT5M"), FilterLiveInputs[i])])
      \o << ClassifiedRecord(JStr("PT30S"), JStr("live")),
            JDict([id |-> JStr("v1")]),
            JDict([contentDetails |-> JStr("PT30S"), snippet |-> JStr("live")]),
            JStr("junk") >>

InitFilter ==
    /\ NoEstimateCall
    /\ NoCall
    /\ NoClientCall
    /\ NoWalk
    /\ p_fn = "filter_videos"
    /\ \E n \in 0 .. MaxFiltered :
          \E pick \in [1 .. n -> DOMAIN FilterItemInputs], sh \in BOOLEAN, lv \in BOOLEAN :
             p_in = [videos |-> Tuple([i \in 1 .. n |-> FilterItemInputs[pick[i]]]),
                     include_shorts |-> sh, include_live |-> lv]
    /\ p_out = <<>>

\* filter_videos(videos, include_shorts=..., include_live=...)
Filter ==
    /\ p_fn = "filter_videos"
    /\ p_out = <<>>
    /\ p_out' = IF FilterRaises(p_in.videos, p_in.include_shorts, p_in.include_live)
                THEN [status |-> "AttributeError", items |-> <<>>]
                ELSE [status |-> "ok",
                      items |-> filter_videos(p_in.videos, p_in.include_shorts,
                                              p_in.include_live)]
    /\ UNCHANGED <<p_fn, p_in, est_vars, call_vars, client_vars, walk_vars>>

NextFilter == Filter

SpecFilter == InitFilter /\ [][NextFilter]_vars

(***************************************************************************)
(* YouTubeDataApiClient: one operation (_get, then the attempts of         *)
(* _request_json). Delays are in milliseconds.                             *)
(***************************************************************************)

YOUTUBE_DATA_API_ALLOWED_ENDPOINTS ==
    {"channels", "playlists", "playlistItems", "videos", "search", "commentThreads"}

DEFAULT_MAX_RETRIES == 3
DEFAULT_INITIAL_BACKOFF_MS == 500
DEFAULT_MAX_BACKOFF_MS == 4000

YouTubeDataApiClientConfig(max_retries, initial_backoff_s, max_backoff_s) ==
    [max_retries |-> max_retries, initial_backoff_s |-> initial_backoff_s,
     max_backoff_s |-> max_backoff_s]

\* what urlopen does on one attempt: a response (kind "ok", or a body that is
\* not JSON), an HTTPError with its code and the reason of its body, a
\* URLError or a TimeoutError
HttpOutcome(kind, status, reason) == [kind |-> kind, status |-> status, reason |-> reason]

\* a raised client error with its YouTubeApiErrorContext
ClientError(exc, http_status, reason) ==
    [status |-> exc, http_status |-> http_status, reason |-> reason]

\* the decoded response
ClientResponse == [status |-> "ok", http_status |-> 200, reason |-> None]

\* the outcomes of an attempt
HttpOutcomes ==
    { HttpOutcome("ok", 200, None), HttpOutcome("invalid_json", 200, None),
      HttpOutcome("url_error", 0, None), HttpOutcome("timeout", 0, None) }
      \cup { HttpOutcome("http_error", st, None) : st \in {400, 401, 404, 418, 429, 500, 503, 599} }
      \cup { HttpOutcome("http_error", st, rs) :
               st \in {401, 403, 429}, rs \in {"quotaExceeded", "forbidden"} }

\* a variant that reports every refused 401/403 as an authorization failure
HttpErrorClass_QuotaAsAuth(status, reason) ==
    CASE status = 400 -> "YouTubeApiBadRequestError"
      [] status \in {401, 403} -> "YouTubeApiAuthError"
      [] status = 404 -> "YouTubeApiNotFoundError"
      [] status = 429 \/ (500 <= status /\ status <= 599) -> "retryable"
      [] OTHER -> "YouTubeApiError"

\* the classification of an HTTPError: the error raised at once, or
\* "retryable" for 429 and 5xx
HttpErrorClass(status, reason) ==
    CASE status = 400 -> "YouTubeApiBadRequestError"
      [] status \in {401, 403} ->
            IF reason = "quotaExceeded" THEN "YouTubeApiQuotaExceededError"
            ELSE "YouTubeApiAuthError"
      [] status = 404 -> "YouTubeApiNotFoundError"
      [] status = 429 \/ (500 <= status /\ status <= 599) -> "retryable"
      [] OTHER -> "YouTubeApiError"

\* a variant that allows one retry more
MayRetry_OneMore(n, max_retries) == n <= max_retries + 1

\* "if attempt <= self._config.max_retries"
MayRetry(n, max_retries) == n <= max_retries

\* "backoff = min(backoff * 2.0, self._config.max_backoff_s)"
NextBackoff(delay, max_backoff_s) == Min(delay * 2, max_backoff_s)

\* _get: the allowlist and part checks, then _request_json starts
ClientGet ==
    /\ c_pc = "get"
    /\ IF c_endpoint \notin YOUTUBE_DATA_API_ALLOWED_ENDPOINTS
       THEN /\ c_pc' = "failed"
            /\ c_result' = ClientError("YouTubeApiMisconfigurationError", None, None)
            /\ UNCHANGED <<attempt, backoff>>
       ELSE IF c_part = "" \/ StripChars(c_part, Whitespace) = ""
       THEN /\ c_pc' = "failed"
            /\ c_result' = ClientError("YouTubeApiBadRequestError", None, None)
            /\ UNCHANGED <<attempt, backoff>>
       ELSE /\ c_pc' = "request"
            /\ attempt' = 0
            /\ backoff' = c_config.initial_backoff_s
            /\ UNCHANGED c_result
    /\ UNCHANGED <<c_endpoint, c_part, c_config, c_slept, c_last>>

\* the outcome of one iteration for a retryable failure: sleep and go on,
\* or raise YouTubeApiTransientError
Retry(n, http_status, reason) ==
    IF MayRetry(n, c_config.max_retries)
    THEN /\ c_slept' = Append(c_slept, backoff)
         /\ backoff' = NextBackoff(backoff, c_config.max_backoff_s)
         /\ UNCHANGED <<c_pc, c_result>>
    ELSE /\ c_pc' = "failed"
         /\ c_result' = ClientError("YouTubeApiTransientError", http_status, reason)
         /\ UNCHANGED <<c_slept, backoff>>

\* an iteration that ends the operation
Finish(pos, res) ==
    /\ c_pc' = pos
    /\ c_result' = res
    /\ UNCHANGED <<c_slept, backoff>>

\* one iteration of the while loop of _request_json
RequestJson ==
    /\ c_pc = "request"
    /\ attempt' = attempt + 1
    /\ \E o \in HttpOutcomes :
          /\ c_last' = o
          /\ CASE o.kind = "ok" -> Finish("done", ClientResponse)
               [] o.kind = "invalid_json" ->
                     Finish("failed", ClientError("YouTubeApiError", o.status, "invalid_json"))
               [] o.kind = "http_error" ->
                     IF HttpErrorClass(o.status, o.reason) = "retryable"
                     THEN Retry(attempt + 1, o.status, o.reason)
                     ELSE Finish("failed", ClientError(HttpErrorClass(o.status, o.reason),
                                                       o.status, o.reason))
               [] OTHER -> Retry(attempt + 1, None, o.kind)
    /\ UNCHANGED <<c_endpoint, c_part, c_config>>

\* the largest max_retries of the configurations
MaxRetries == 3

ClientEndpointInputs == YOUTUBE_DATA_API_ALLOWED_ENDPOINTS \cup {"notAllowed"}

ClientPartInputs == {"snippet", "", " "}

\* initial_backoff_s and max_backoff_s of the configurations: the defaults,
\* equal values, and a maximum that is not a power-of-two multiple
BackoffInputs ==
    { <<DEFAULT_INITIAL_BACKOFF_MS, DEFAULT_MAX_BACKOFF_MS>>, <<500, 500>>, <<1000, 3000>> }

InitClient ==
    /\ NoEstimateCall
    /\ NoCall
    /\ NoPureCall
    /\ NoWalk
    /\ c_endpoint \in ClientEndpointInputs
    /\ c_part \in ClientPartInputs
    /\ c_config \in { YouTubeDataApiClientConfig(n, b[1], b[2]) :
                        n \in (0 .. MaxRetries) \cup {DEFAULT_MAX_RETRIES},
                        b \in BackoffInputs }
    /\ c_pc = "get"
    /\ attempt = 0
    /\ backoff = 0
    /\ c_slept = <<>>
    /\ c_last = [kind |-> "none", status |-> 0, reason |-> None]
    /\ c_result = [status |-> "pending", http_status |-> 0, reason |-> None]

NextClient ==
    \/ (ClientGet /\ UNCHANGED <<est_vars, call_vars, pure_vars, walk_vars>>)
    \/ (RequestJson /\ UNCHANGED <<est_vars, call_vars, pure_vars, walk_vars>>)

SpecClient == InitClient /\ [][NextClient]_vars

\* the operation is not suspended for ever between two attempts
SpecClientLive == SpecClient /\ WF_vars(NextClient)

(***************************************************************************)
(* A walk over uploads_playlist: list_channel_videos_page is called with   *)
(* no page_token first and then with the next_page_token of the page it    *)
(* returned, until a page carries none. max_videos is the same in every    *)
(* call. The backend holds a collection of up to MaxWalkPages pages and    *)
(* answers every request; the channel resolves to its uploads playlist.    *)
(***************************************************************************)

\* the most pages the backend's collection has
MaxWalkPages == 3

\* the token the backend gives out for page k
WalkToken(k) == "P" \o ToString(k)

\* the items of page k: one or several well-formed items, none, or a
\* malformed item before a well-formed one
WalkItems(k, choice) ==
    LET vid(n) == "p" \o ToString(k) \o "v" \o ToString(n)
    IN CASE choice = 1 -> JList(<< PlaylistItem(vid(1)) >>)
         [] choice = 2 -> JList(<< PlaylistItem(vid(1)), PlaylistItem(vid(2)) >>)
         [] choice = 3 -> JList(<<>>)
         [] choice = 4 -> JList(<< JStr("junk"), PlaylistItem(vid(1)) >>)
         [] choice = 5 -> JList(<< PlaylistItem(vid(1)), PlaylistItem(vid(2)),
                                   PlaylistItem(vid(3)) >>)

WalkChoices == 1 .. 5

WalkMaxInputs == {1, 2, 50}

\* the page of the collection a request with page_token tok asks for
\* ("if page_token:" adds no pageToken for None, so the first page)
WalkPageOf(playlist, tok) ==
    IF tok = None THEN 1 ELSE CHOOSE k \in DOMAIN playlist : WalkToken(k) = tok

\* the backend's playlistItems.list response for page k
WalkResponse(playlist, k) ==
    ListResponse(WalkItems(k, playlist[k]),
                 IF k < Len(playlist) THEN JStr(WalkToken(k + 1)) ELSE JAbsent)

\* list_channel_videos_page from the list response on: the identifiers
\* handed to videos.list, the token and the flag of the returned page
PageOutcome(playlist_resp, max_videos) ==
    LET found == extract_video_ids(Get(playlist_resp, "items"))
        video_ids == TruncateIds(found, max_videos)
    IN IF Len(video_ids) = 0
       THEN [video_ids |-> <<>>, next_page_token |-> None, truncated |-> FALSE]
       ELSE [video_ids |-> video_ids,
             next_page_token |-> StrOrNone(Get(playlist_resp, "nextPageToken")),
             truncated |-> max_videos < Len(found)]

InitWalk ==
    /\ NoEstimateCall
    /\ NoCall
    /\ NoPureCall
    /\ NoClientCall
    /\ \E n \in 1 .. MaxWalkPages : w_playlist \in [1 .. n -> WalkChoices]
    /\ w_max \in WalkMaxInputs
    /\ w_token = None
    /\ w_pc = "call"
    /\ w_resp = JAbsent
    /\ w_fetched = <<>>

\* one call of list_channel_videos_page with the token of the walk
WalkCall ==
    /\ w_pc = "call"
    /\ \E resp \in { WalkResponse(w_playlist, WalkPageOf(w_playlist, w_token)) } :
       \E page \in { PageOutcome(resp, w_max) } :
          /\ w_resp' = resp
          /\ w_fetched' = IF Len(page.video_ids) = 0 THEN w_fetched
                          ELSE Append(w_fetched, page.video_ids)
          /\ w_token' = page.next_page_token
          /\ w_pc' = IF page.next_page_token = None THEN "ended" ELSE "call"
    /\ UNCHANGED <<w_playlist, w_max, est_vars, call_vars, pure_vars, client_vars>>

NextWalk == WalkCall

SpecWalk == InitWalk /\ [][NextWalk]_vars

(***************************************************************************)
(* Properties of estimate_channel_videos_quota (under SpecEstimate)        *)
(***************************************************************************)
HasNote(r, n) == \E i \in DOMAIN r.notes : r.notes[i] = n

\* ceil(x / d), stated without the code's (x + d - 1) // d
Ceil(x, d) == IF x % d = 0 THEN x \div d ELSE (x \div d) + 1

\* the reference computation of estimatedUnits for a positive request
RefUnits(strategy, r, budget, details) ==
    LET eff == IF r < budget.max_videos THEN r ELSE budget.max_videos
        c == IF strategy = "search_api" /\ eff > 500 THEN 500 ELSE eff
        need == Ceil(c, 50)
        pages == IF need < budget.max_pages THEN need ELSE budget.max_pages
        perPage == IF strategy = "search_api" THEN 100 ELSE 1
    IN perPage * pages + (IF details THEN need ELSE 0)

Returned == q_result.status = "ok"

\* C4: estimate raises ValueError whenever requestedMaxItems <= 0, raises
\* QuotaBudgetExceeded exactly when the computed units exceed
\* budget.maxCostUnits, and otherwise returns; every returned estimate has
\* estimatedUnits <= budget.maxCostUnits and carries the requested strategy.
C4_EstimateOutcome ==
    q_result # Pending =>
        LET units == RefUnits(q_strategy, q_requested, q_budget, q_details)
        IN /\ (q_requested <= 0 => q_result.status = "ValueError")
           /\ (q_requested > 0 =>
                 /\ q_result.status \in {"ok", "QuotaBudgetExceeded"}
                 /\ (q_result.status = "QuotaBudgetExceeded"
                        <=> units > q_budget.max_quota_units))
           /\ (Returned =>
                 /\ q_result.estimated_units <= q_budget.max_quota_units
                 /\ q_result.strategy = q_strategy)

\* the budget test of test_budget_exceeded_raises: 200 videos with details
\* cost 8 units against a ceiling of 2
C4_Witness ==
    /\ q_result.status = "QuotaBudgetExceeded"
    /\ q_strategy = "uploads_playlist"
    /\ q_requested = 200
    /\ q_details
    /\ q_budget = QuotaBudget(200, 10, 2)

\* C5: for a fixed strategy, budget and includeDetails and positive
\* r1 <= r2: when both calls return, estimatedUnits(r1) <= estimatedUnits(r2),
\* and when the call for r1 raises QuotaBudgetExceeded so does the call for r2.
C5_Monotone ==
    q_result # Pending =>
        \A r1 \in RequestedInputs :
            (r1 > 0 /\ r1 <= q_requested) =>
                LET o1 == estimate_channel_videos_quota(q_strategy, r1, q_budget, q_details)
                IN /\ (o1.status = "ok" /\ Returned
                          => o1.estimated_units <= q_result.estimated_units)
                   /\ (o1.status = "QuotaBudgetExceeded"
                          => q_result.status = "QuotaBudgetExceeded")

\* a returned estimate that is strictly larger than the one of a smaller request
C5_Witness ==
    /\ Returned
    /\ q_requested = 120
    /\ \E r1 \in 1 .. 119 :
          LET o1 == estimate_channel_videos_quota(q_strategy, r1, q_budget, q_details)
          IN o1.status = "ok" /\ o1.estimated_units < q_result.estimated_units

\* the three instances of the unit tests
C6_Instances ==
    /\ (/\ q_result # Pending
        /\ q_strategy = "uploads_playlist" /\ q_requested = 120 /\ q_details
        /\ q_budget = QuotaBudget(200, 10, 1000))
          => (Returned /\ q_result.estimated_units = 6)
    /\ (/\ q_result # Pending
        /\ q_strategy = "uploads_playlist" /\ q_requested = 1000 /\ ~q_details
        /\ q_budget.max_videos = 50 /\ q_budget.max_quota_units >= 1)
          => (Returned /\ q_result.estimated_units = 1
                /\ HasNote(q_result, NOTE_VIDEOS_TRUNCATED))
    /\ (/\ q_result # Pending
        /\ q_strategy = "search_api" /\ q_requested = 10000 /\ ~q_details
        /\ q_budget = QuotaBudget(10000, 100, 10000))
          => (Returned /\ q_result.estimated_units = 1000
                /\ HasNote(q_result, NOTE_SEARCH_CAPPED))

\* min(requestedMaxItems, budget.maxItems) of the call in the state
Eff == IF q_requested < q_budget.max_videos THEN q_requested ELSE q_budget.max_videos

\* C6 as claimed: a returned estimate equals the reference computation, the
\* items-truncation note is present exactly when requestedMaxItems >
\* budget.maxItems and the capped-to-500 note exactly when eff > 500, for
\* every strategy; with the three instances of the unit tests.
C6_Original ==
    /\ Returned =>
          /\ q_result.estimated_units
                 = RefUnits(q_strategy, q_requested, q_budget, q_details)
          /\ HasNote(q_result, NOTE_VIDEOS_TRUNCATED)
                 <=> q_requested > q_budget.max_videos
          /\ HasNote(q_result, NOTE_SEARCH_CAPPED) <=> Eff > 500
    /\ C6_Instances

\* C6 (amended): a returned estimate equals the reference computation, the
\* items-truncation note is present exactly when requestedMaxItems >
\* budget.maxItems, and the capped-to-500 note is present exactly when the
\* strategy is search_api and eff > 500 (uploads_playlist and local_sort never
\* carry it); with the three instances of the unit tests.
C6_ReferenceComputation ==
    /\ Returned =>
          /\ q_result.estimated_units
                 = RefUnits(q_strategy, q_requested, q_budget, q_details)
          /\ HasNote(q_result, NOTE_VIDEOS_TRUNCATED)
                 <=> q_requested > q_budget.max_videos
          /\ HasNote(q_result, NOTE_SEARCH_CAPPED)
                 <=> (q_strategy = "search_api" /\ Eff > 500)
    /\ C6_Instances

\* the search_api instance: 10000 requested, capped to 500, 10 pages
C6_Witness ==
    /\ Returned
    /\ q_strategy = "search_api" /\ q_requested = 10000 /\ ~q_details
    /\ q_budget = QuotaBudget(10000, 100, 10000)
    /\ q_result.estimated_units = 1000
    /\ HasNote(q_result, NOTE_SEARCH_CAPPED)

(***************************************************************************)
(* Properties of the listing pipelines (under Spec)                        *)
(***************************************************************************)
\* the call is one of a listing pipeline
Listing == op \in ListingOps

\* quota units of the backend requests issued so far: 100 per search.list
\* request, 1 per channels.list, playlistItems.list and videos.list request
Cost ==
    QUOTA_COST_SEARCH * Cardinality({ i \in DOMAIN calls : calls[i].api = "search_list" })
      + QUOTA_COST_READ * Cardinality({ i \in DOMAIN calls : calls[i].api # "search_list" })

\* C1: for every listing call that returns a page, whatever the backend
\* responded, the total cost of the backend requests the call issued is at
\* most the estimatedUnits of the returned quotaEstimate.
C1_CostWithinEstimate ==
    (Listing /\ pc = "done") => Cost <= result.quota_estimate.estimated_units

\* C2: at every point of a listing call made with budget B, the accumulated
\* cost of the backend requests issued is at most B.maxCostUnits.
C2_CostWithinBudget ==
    Listing => Cost <= args.budget.max_quota_units

\* the outcome of the pre-flight estimate for the arguments of the call
PreflightEstimate ==
    estimate_channel_videos_quota(StrategyOf(op), args.max_videos, args.budget, TRUE)

\* C3: in each listing pipeline, when the pre-flight estimate raises
\* (ValueError for max_videos <= 0, QuotaBudgetExceeded for an estimate above
\* budget.maxCostUnits), the call fails with that error and no backend request,
\* not even the resolver's channels.list, has been issued.
C3_PreflightFailureStops ==
    (/\ Listing
     /\ pc # "start"
     /\ ArgumentError(op, args) = ""
     /\ PreflightEstimate.status # "ok")
       => /\ pc = "failed"
          /\ result = CallRaised(PreflightEstimate.status, "estimate_channel_videos_quota")
          /\ result.status \in {"ValueError", "QuotaBudgetExceeded"}
          /\ (result.status = "ValueError" <=> args.max_videos <= 0)
          /\ calls = <<>>

\* a keyword search refused before any request: one search page costs 100
\* units against a ceiling of 2
C3_Witness ==
    /\ op = "channel_search"
    /\ args.budget = QuotaBudget(200, 2, 2)
    /\ args.max_videos = 3
    /\ pc = "failed"
    /\ result = CallRaised("QuotaBudgetExceeded", "estimate_channel_videos_quota")
    /\ calls = <<>>

(***************************************************************************)
(* Properties of resolve_channel (under Spec)                              *)
(***************************************************************************)
\* the reference of the call as parse_channel_ref classifies it
ParsedRef == parse_channel_ref(args.channel_ref)

\* resolve_channel was called and has returned or raised
ResolveLeft ==
    /\ pc \notin {"start", "resolve"}
    /\ op = "resolve_channel" \/ quota_est.status = "ok"

\* resolve_channel called on its own in best-effort mode has returned or raised
BestEffortLeft ==
    /\ op = "resolve_channel"
    /\ args.mode = "best_effort"
    /\ pc \in {"done", "failed"}

\* C7: for every input that the parser classifies as query or custom_url,
\* resolve_channel in strict mode raises ChannelResolutionError and issues no
\* backend request (neither channels.list nor search.list).
C7_StrictRefusesAmbiguous ==
    (/\ ResolveLeft
     /\ ResolveMode = "strict"
     /\ ParsedRef.status = "ok"
     /\ ParsedRef.kind \in {"query", "custom_url"})
       => /\ pc = "failed"
          /\ result.status = "ChannelResolutionError"
          /\ calls = <<>>

\* a custom url and a free-text name refused in strict mode
C7_Witness ==
    /\ op = "resolve_channel"
    /\ args.mode = "strict"
    /\ args.channel_ref \in {"https://www.youtube.com/c/Foo", "Some Channel Name"}
    /\ ParsedRef.kind \in {"query", "custom_url"}
    /\ pc = "failed"
    /\ result.status = "ChannelResolutionError"
    /\ calls = <<>>

\* the items of the response to the resolver's request
ResolveItems == Get(resolve_data, "items")

\* C8 as claimed: for a non-empty input classified as query, resolve_channel
\* in best-effort mode never raises ChannelResolutionError, whatever item list
\* search.list returns (an empty or absent list included): it returns a
\* ResolvedChannel with an empty id and a candidates sequence of zero or more
\* entries.
C8_Original ==
    (BestEffortLeft /\ ParsedRef.status = "ok" /\ ParsedRef.kind = "query")
       => /\ result.status # "ChannelResolutionError"
          /\ (pc = "done" => result.channel_id = "" /\ Len(result.candidates) >= 0)

\* C8 (amended): for a non-empty input classified as query, resolve_channel
\* in best-effort mode issues one search.list request; when the response
\* holds a non-empty item list it returns a ResolvedChannel with an empty id
\* and a candidates sequence of zero or more entries (at most one per item),
\* and when the item list is empty, absent or not a list it raises
\* ChannelResolutionError.
C8_BestEffortQuery ==
    (/\ BestEffortLeft
     /\ ParsedRef.status = "ok"
     /\ ParsedRef.kind = "query"
     /\ result.status # "YouTubeApiError")
       => /\ Len(calls) = 1
          /\ calls[1].api = "search_list"
          /\ IF IsList(ResolveItems) /\ Len(ResolveItems.v) > 0
             THEN /\ pc = "done"
                  /\ result.status = "ok"
                  /\ result.channel_id = ""
                  /\ Len(result.candidates) <= Len(ResolveItems.v)
             ELSE /\ pc = "failed"
                  /\ result = CallRaised("ChannelResolutionError",
                                         "No channel candidates found")

\* a free-text name resolved in best-effort mode from a non-empty item list
C8_Witness ==
    /\ BestEffortLeft
    /\ args.channel_ref = "Acme"
    /\ ParsedRef.kind = "query"
    /\ pc = "done"
    /\ IsList(ResolveItems)
    /\ result.channel_id = ""
    /\ Len(result.candidates) = 2

\* channelId of a request that is parameterised by a channel
HasChannelId(req) == "channelId" \in DOMAIN req.params

\* C9: every ResolvedChannel returned by resolve_channel in strict mode has a
\* non-empty string id, for any channels.list response (a single item without
\* an id, or with an id that is not a string, included), and no listing
\* pipeline sends a backend request parameterised by an empty or missing
\* channel id.
C9_StrictIdNonEmpty ==
    /\ (ResolveMode = "strict" /\ resolved.status = "ok")
          => (resolved.channel_id # None /\ resolved.channel_id # "")
    /\ Listing =>
          \A i \in DOMAIN calls :
              HasChannelId(calls[i]) => calls[i].params.channelId \notin {None, ""}

\* the channel id of a search.list item (id.channelId), or None
SearchItemChannelId(item) ==
    IF ~IsDict(item) THEN None
    ELSE IF ~IsDict(Get(item, "id")) THEN None
    ELSE StrOrNone(Get(Get(item, "id"), "channelId"))

\* the candidates are entries of the item list, in the order of the list
InBackendOrder(candidates, items) ==
    /\ \A i \in DOMAIN candidates :
          \E a \in DOMAIN items : SearchItemChannelId(items[a]) = candidates[i].channel_id
    /\ \A i, j \in DOMAIN candidates :
          i < j => \E a, b \in DOMAIN items :
                      /\ a < b
                      /\ SearchItemChannelId(items[a]) = candidates[i].channel_id
                      /\ SearchItemChannelId(items[b]) = candidates[j].channel_id

\* C10: every ResolvedChannel returned in best-effort mode for a query (or a
\* custom_url taken as a query) has an empty id, the best-effort warning
\* marker, and a non-empty candidates sequence whose entries each have a
\* non-empty id and appear in backend result order; no candidate is promoted
\* to the id.
C10_BestEffortCandidates ==
    (/\ BestEffortLeft
     /\ pc = "done"
     /\ ParsedRef.status = "ok"
     /\ ParsedRef.kind \in {"query", "custom_url"})
       => /\ result.channel_id = ""
          /\ InSeq(WARN_BEST_EFFORT, result.warnings)
          /\ Len(result.candidates) > 0
          /\ \A i \in DOMAIN result.candidates :
                result.candidates[i].channel_id \notin {None, ""}
          /\ InBackendOrder(result.candidates, ResolveItems.v)

\* the channels.list filter of a handle, channel_id or username reference
KindFilter(ref) ==
    CASE ref.kind = "handle" -> [forHandle |-> "@" \o ref.value]
      [] ref.kind = "channel_id" -> [id |-> ref.value]
      [] ref.kind = "username" -> [forUsername |-> ref.value]

\* resolve_channel has raised ChannelResolutionError with the given message
ResolveFailedWith(message) ==
    /\ pc = "failed"
    /\ result = CallRaised("ChannelResolutionError", message)
    /\ resolved = NotResolved

\* C11: for a handle, channel_id or username reference, in either mode,
\* resolve_channel issues exactly one channels.list request with the filter of
\* the kind (forHandle = "@" + value, id = value, forUsername = value) and no
\* channel search; it returns only when the response holds exactly one item,
\* raises ChannelResolutionError for no item or a non-list and for more than
\* one item; a missing uploads playlist id, when it is asked for, adds a
\* warning and is not a failure of resolve_channel.
C11_ChannelsLookup ==
    (/\ ResolveLeft
     /\ ParsedRef.status = "ok"
     /\ ParsedRef.kind \in {"handle", "channel_id", "username"})
       => /\ Len(calls) >= 1
          /\ calls[1] = Request("channels_list", ChannelsPart(ResolveUploads),
                                KindFilter(ParsedRef))
          /\ \A i \in DOMAIN calls :
                /\ (calls[i].api = "channels_list" => i = 1)
                /\ (calls[i].api = "search_list" => calls[i].params.type # "channel")
          /\ (op = "resolve_channel" => Len(calls) = 1)
          /\ (resolved.status = "ok" =>
                /\ IsList(ResolveItems)
                /\ Len(ResolveItems.v) = 1)
          /\ (resolve_data # JAbsent =>
                IF ~IsList(ResolveItems) \/ Len(ResolveItems.v) = 0
                THEN ResolveFailedWith("Channel not found")
                ELSE IF Len(ResolveItems.v) > 1
                THEN ResolveFailedWith("Multiple channels matched unexpectedly")
                ELSE /\ resolved.status = "ok"
                     /\ (op = "resolve_channel" => pc = "done" /\ result = resolved)
                     /\ (ResolveUploads /\ resolved.uploads_playlist_id = None
                           => InSeq(WARN_NO_UPLOADS, resolved.warnings)))

\* a handle resolved from a single channel that has no uploads playlist: the
\* result carries the warning
C11_Witness ==
    /\ op = "resolve_channel"
    /\ args.channel_ref = " @Handle "
    /\ args.include_uploads_playlist
    /\ pc = "done"
    /\ calls = << Request("channels_list", "snippet,id,contentDetails",
                          [forHandle |-> "@Handle"]) >>
    /\ result.channel_id = "UC_x"
    /\ result.uploads_playlist_id = None
    /\ result.warnings = <<WARN_NO_UPLOADS>>

(***************************************************************************)
(* Properties of parse_channel_ref (under SpecParse)                       *)
(***************************************************************************)
Parsed == p_fn = "parse_channel_ref" /\ p_out # <<>>

RECURSIVE DropLeading(_)
\* s without its leading whitespace
DropLeading(s) ==
    IF s # "" /\ Head(s) \in Whitespace THEN DropLeading(Tail(s)) ELSE s

RECURSIVE DropTrailing(_)
\* s without its trailing whitespace
DropTrailing(s) ==
    IF s # "" /\ SubSeq(s, Len(s), Len(s)) \in Whitespace
    THEN DropTrailing(SubSeq(s, 1, Len(s) - 1))
    ELSE s

\* the input with surrounding whitespace trimmed
Trimmed(s) == DropTrailing(DropLeading(s))

\* the trimmed input without its first character, trimmed again
AfterAt(s) == Trimmed(Tail(Trimmed(s)))

\* the trimmed input starts with "@"
AtPrefixed(s) == Trimmed(s) # "" /\ Head(Trimmed(s)) = "@"

\* s holds one of the separators "/", "?", "#"
Separated(s) == \E i \in 1 .. Len(s) : SubSeq(s, i, i) \in {"/", "?", "#"}

\* C12 as claimed: for every non-empty input that starts with "@" (once
\* trimmed), parse_channel_ref returns a ChannelRef of kind handle whose value
\* is the input trimmed and without the leading "@", and whose raw is the
\* trimmed input.
C12_Original ==
    (Parsed /\ AtPrefixed(p_in))
       => p_out = ChannelRef("handle", AfterAt(p_in), Trimmed(p_in))

\* C12 (amended): for every input that starts with "@" (once trimmed),
\* parse_channel_ref returns a ChannelRef of kind handle whose value is the
\* text after the "@", trimmed, and whose raw is the trimmed input, when that
\* value is non-empty and holds none of "/", "?", "#"; otherwise it raises
\* ChannelRefParseError.
C12_ExplicitHandle ==
    (Parsed /\ AtPrefixed(p_in))
       => IF AfterAt(p_in) # "" /\ ~Separated(AfterAt(p_in))
          THEN p_out = ChannelRef("handle", AfterAt(p_in), Trimmed(p_in))
          ELSE p_out = ParseRaised("ChannelRefParseError")

\* " @ h": the handle is h and the raw text is "@ h"
C12_Witness ==
    /\ Parsed
    /\ p_in = " @ h"
    /\ p_out = ChannelRef("handle", "h", "@ h")

\* the channel-id shape: the prefix "UC", at least 16 characters, no space
IdShaped(s) == Len(s) >= 16 /\ SubSeq(s, 1, 2) = "UC" /\ ~HasChar(s, " ")

\* what follows "http://" or "https://" in s, or s itself when it begins with
\* an allowed hostname and "/"; <<>> when s is neither
AfterScheme(s) ==
    IF StartsWith(Lower(s), "https://") THEN <<From(s, 9)>>
    ELSE IF StartsWith(Lower(s), "http://") THEN <<From(s, 8)>>
    ELSE IF \E h \in YOUTUBE_HOSTS : StartsWith(s, h \o "/") THEN <<s>>
    ELSE <<>>

\* the host of the url text t: up to the first "/", "?" or "#"
HostOf(t) ==
    IF FindAny(t, {"/", "?", "#"}, 1) = 0 THEN t
    ELSE SubSeq(t, 1, FindAny(t, {"/", "?", "#"}, 1) - 1)

\* the path of the url text t: from the first "/" after the host up to the
\* first "?" or "#"
PathOf(t) == Before(Before(From(t, Len(HostOf(t)) + 1), "?"), "#")

\* s is an http/https url, or a scheme-less one, on an allowed hostname
RecognizedUrl(s) ==
    /\ AfterScheme(s) # <<>>
    /\ Lower(HostOf(AfterScheme(s)[1])) \in YOUTUBE_HOSTS

\* the kind that the path prefix fixes
KindOfPath(path) ==
    IF StartsWith(path, "/@") THEN "handle"
    ELSE IF StartsWith(path, "/channel/") THEN "channel_id"
    ELSE IF StartsWith(path, "/user/") THEN "username"
    ELSE IF StartsWith(path, "/c/") THEN "custom_url"
    ELSE "query"

\* C13 for one non-empty trimmed input and the outcome of parse_channel_ref
RulesInOrder(raw, out) ==
    IF Head(raw) = "@" THEN out.status = "ok" => out.kind = "handle"
    ELSE IF IdShaped(raw) THEN out = ChannelRef("channel_id", raw, raw)
    ELSE IF RecognizedUrl(raw)
    THEN /\ out.status \in {"ok", "ChannelRefParseError"}
         /\ out.status = "ok" =>
               /\ out.kind = KindOfPath(PathOf(AfterScheme(raw)[1]))
               /\ out.raw = raw
    ELSE out = ChannelRef("query", raw, raw)

\* C13: parse_channel_ref applies its rules in order, first match wins: the
\* "@" prefix, then the channel-id shape, then url parsing. For an http/https
\* url (or a scheme-less text beginning with an allowed hostname and "/") on
\* one of the three allowed hostnames the kind is fixed by the path prefix
\* (/@ handle, /channel/ channel_id, /user/ username, /c/ custom_url, any
\* other path query). Every other input, a url on another host or with
\* another scheme included, yields kind query with the trimmed input as value
\* and never an error.
C13_RulesInOrder ==
    (Parsed /\ Trimmed(p_in) # "") => RulesInOrder(Trimmed(p_in), p_out)

\* the url text after the scheme of a url on an allowed hostname, the
\* protocol-relative form "//host/..." included; <<>> when s is no such url
HostedText(s) ==
    IF RecognizedUrl(s) THEN AfterScheme(s)
    ELSE IF StartsWith(s, "//") /\ Lower(HostOf(From(s, 3))) \in YOUTUBE_HOSTS
    THEN <<From(s, 3)>>
    ELSE <<>>

\* the prefix of the path that fixes a kind other than query
PrefixOfPath(path) ==
    CASE KindOfPath(path) = "handle" -> "/@"
      [] KindOfPath(path) = "channel_id" -> "/channel/"
      [] KindOfPath(path) = "username" -> "/user/"
      [] KindOfPath(path) = "custom_url" -> "/c/"

RECURSIVE DropSlashes(_)
\* the segment without its leading and trailing "/"
DropSlashes(s) ==
    IF s # "" /\ Head(s) = "/" THEN DropSlashes(Tail(s))
    ELSE IF s # "" /\ SubSeq(s, Len(s), Len(s)) = "/"
    THEN DropSlashes(SubSeq(s, 1, Len(s) - 1))
    ELSE s

\* the segment extracted from a path that has a kind prefix
SegmentOf(path) == DropSlashes(From(path, Len(PrefixOfPath(path)) + 1))

\* the cases in which C14 has parse_channel_ref raise ChannelRefParseError
ParseErrorCase(raw) ==
    \/ raw = ""
    \/ /\ raw # ""
       /\ Head(raw) = "@"
       /\ (AfterAt(raw) = "" \/ Separated(AfterAt(raw)))
    \/ /\ raw # ""
       /\ Head(raw) # "@"
       /\ ~IdShaped(raw)
       /\ HostedText(raw) # <<>>
       /\ KindOfPath(PathOf(HostedText(raw)[1])) # "query"
       /\ \/ SegmentOf(PathOf(HostedText(raw)[1])) = ""
          \/ Separated(SegmentOf(PathOf(HostedText(raw)[1])))

\* C14: parse_channel_ref raises ChannelRefParseError exactly when the input
\* is empty or whitespace only, the handle after "@" is empty, a handle,
\* channel id, username or custom segment taken from the path of a url on an
\* allowed hostname is empty once "/" is stripped, or such a segment (or an
\* "@" handle) holds "/", "?" or "#"; in every other case it returns a
\* ChannelRef whose raw is the trimmed input.
C14_ParseErrorCases ==
    Parsed =>
       IF ParseErrorCase(Trimmed(p_in))
       THEN p_out = ParseRaised("ChannelRefParseError")
       ELSE p_out.status = "ok" /\ p_out.raw = Trimmed(p_in)

\* ---------------------------------------------------------------------------
\* Pagination properties of the listing pipelines
\* ---------------------------------------------------------------------------

\* the identifiers the fetched playlistItems.list page yields, in page order
PageIds == extract_video_ids(Get(list_resp, "items"))

\* the id parameters of the videos.list requests the call has issued
VideosRequested ==
    LET batches == SelectSeq(calls, LAMBDA c : c.api = "videos_list")
    IN  [i \in DOMAIN batches |-> batches[i].params.id]

\* the nextPageToken of the list response when it is a usable token
BackendToken ==
    IF IsStr(Get(list_resp, "nextPageToken")) /\ Get(list_resp, "nextPageToken").v # ""
    THEN Get(list_resp, "nextPageToken").v
    ELSE None

\* C15: uploads_playlist, a call that returns a page: when the fetched page
\* yields k identifiers and max_videos < k, one videos.list request asks for
\* exactly the first max_videos identifiers in page order, applied_max_videos
\* is max_videos, truncated is true and the backend's token is returned
\* unchanged; when max_videos >= k, all k identifiers are requested (no
\* request when k = 0), applied_max_videos is k and truncated is false.
C15_UploadsTruncation ==
    (op = "uploads_playlist" /\ pc = "done") =>
       IF args.max_videos < Len(PageIds)
       THEN /\ VideosRequested = << JoinIds(SubSeq(PageIds, 1, args.max_videos)) >>
            /\ result.applied_max_videos = args.max_videos
            /\ result.truncated = TRUE
            /\ result.next_page_token = BackendToken
       ELSE /\ VideosRequested = IF Len(PageIds) = 0 THEN <<>> ELSE << JoinIds(PageIds) >>
            /\ result.applied_max_videos = Len(PageIds)
            /\ result.truncated = FALSE

\* a page of 3 identifiers and max_videos = 2: two identifiers requested, the
\* page is marked truncated and carries the backend's token
C15_Witness ==
    /\ op = "uploads_playlist"
    /\ pc = "done"
    /\ args.max_videos = 2
    /\ PageIds = << "v1", "v2", "v3" >>
    /\ Get(list_resp, "nextPageToken") = JStr("TOK")
    /\ VideosRequested = << "v1,v2" >>
    /\ result.applied_max_videos = 2
    /\ result.truncated = TRUE
    /\ result.next_page_token = "TOK"

\* the video identifiers a search.list response supplies, in response order
SearchPageIds ==
    IF IsList(Get(list_resp, "items"))
    THEN SelectSeq(Get(list_resp, "items").v, LAMBDA it : SearchItemVideoId(it) # None)
    ELSE <<>>

\* the identifiers the list response of a one-page pipeline supplies
Supplied == IF op = "uploads_playlist" THEN PageIds ELSE SearchPageIds

\* a one-page pipeline returned a page that leaves out identifiers the
\* backend supplied (these pipelines fetch one page and hand the token back,
\* so they never stop fetching because of a limit)
DiscardedIds == Len(Supplied) > result.applied_max_videos

\* local_sort leaves its page loop
LeavesLoop == op = "local_sort" /\ pc = "list" /\ pc' \in {"videos", "done"}

\* local_sort, on leaving the loop: the pages fetched yield more identifiers
\* than max_videos, or the last response still reported a continuation
LoopLimited ==
    \/ Len(l_ids \o extract_video_ids(Get(list_resp', "items"))) > args.max_videos
    \/ IsStr(Get(list_resp', "nextPageToken")) /\ Get(list_resp', "nextPageToken").v # ""

\* C16: for every page returned by a listing pipeline, truncated is true if
\* and only if the pipeline discarded identifiers the backend supplied or
\* stopped fetching while the backend still reported a continuation, because
\* of max_videos or a budget limit.
C16_TruncatedIffLimited ==
    /\ [](Listing /\ pc = "done" /\ op # "local_sort"
             => (result.truncated <=> DiscardedIds))
    /\ [](op = "local_sort" /\ pc = "done" => result.truncated = l_truncated)
    /\ [][LeavesLoop => (l_truncated' <=> LoopLimited)]_vars

\* C17: for uploads_playlist, search_api and channel search, the
\* next_page_token of the returned page equals the nextPageToken of the
\* backend's list response whenever that is a non-empty string, whatever items
\* the response carried, and is None exactly when the response has no such
\* token.
C17_TokenPassedThrough ==
    (op \in {"uploads_playlist", "search_api", "channel_search"} /\ pc = "done")
       => result.next_page_token = BackendToken

\* ---------------------------------------------------------------------------
\* Argument checks of the pipelines
\* ---------------------------------------------------------------------------

\* the call has been refused with ValueError(msg): no estimate was stored and
\* no backend request was issued
RefusedWith(msg) ==
    /\ pc = "failed"
    /\ result = CallRaised("ValueError", msg)
    /\ quota_est = Pending
    /\ calls = <<>>

\* C18: local_sort raises ValueError for every call that supplies a
\* continuation token (a non-empty page_token), before the quota estimate and
\* before any backend request.
C18_LocalSortRefusesToken ==
    (op = "local_sort" /\ pc # "start" /\ args.page_token \notin {None, ""})
       => RefusedWith("page_token is not supported for local_sort")

\* a token together with max_videos = 0: the call fails on the token, not on
\* the ValueError the estimate would raise
C18_Witness ==
    /\ op = "local_sort"
    /\ args.page_token = "TOK"
    /\ args.max_videos = 0
    /\ PreflightEstimate.status = "ValueError"
    /\ RefusedWith("page_token is not supported for local_sort")

\* the query is empty or holds whitespace only
BlankQuery(query) == \A i \in 1 .. Len(query) : CharAt(query, i) \in Whitespace

\* the call, once past its first step, has failed with ValueError(msg); no
\* backend request has been issued at any point
RejectedUnserved(msg) ==
    /\ calls = <<>>
    /\ pc \notin {"dispatch", "start"} => (pc = "failed" /\ result = CallRaised("ValueError", msg))

\* C19: search_api, called directly or through list_channel_videos, raises
\* ValueError for every order_by outside {date, viewCount} before any backend
\* request; the channel keyword search raises ValueError for an empty or
\* whitespace-only query before any backend request.
C19_SearchArgumentsChecked ==
    /\ ((op = "search_api" \/ f_strategy = "search_api")
           /\ args.order_by \notin {"date", "viewCount"})
          => RejectedUnserved("search_api supports only order_by in {'date','viewCount'}")
    /\ (op = "channel_search" /\ BlankQuery(args.query))
          => RejectedUnserved("query is required")

\* list_channel_videos(strategy="search_api", order_by="likeCount") has
\* dispatched to the search pipeline, which refused the call
C19_Witness ==
    /\ f_strategy = "search_api"
    /\ op = "search_api"
    /\ args.order_by = "likeCount"
    /\ pc = "failed"
    /\ result.status = "ValueError"
    /\ calls = <<>>

\* ---------------------------------------------------------------------------
\* Filtering of shorts and live broadcasts
\* ---------------------------------------------------------------------------

\* filter_videos has been applied
Filtered == p_fn = "filter_videos" /\ p_out # <<>>

\* text is empty, or one or more digits followed by the unit letter
UnitText(text, unit) ==
    \/ text = ""
    \/ /\ Len(text) >= 2
       /\ CharAt(text, Len(text)) = unit
       /\ \A i \in 1 .. Len(text) - 1 : IsDigit(CharAt(text, i))

\* the number in front of the unit letter (0 for the empty text)
UnitNumber(text) ==
    IF text = "" THEN 0 ELSE DecimalValue(SubSeq(text, 1, Len(text) - 1))

\* the ways of reading text as PT[nH][nM][nS]: the ends of the H and M parts
DurationReadings(text) ==
    IF ~StartsWith(text, "PT") THEN {}
    ELSE { cut \in (2 .. Len(text)) \X (2 .. Len(text)) :
             /\ cut[1] <= cut[2]
             /\ UnitText(SubSeq(text, 3, cut[1]), "H")
             /\ UnitText(SubSeq(text, cut[1] + 1, cut[2]), "M")
             /\ UnitText(SubSeq(text, cut[2] + 1, Len(text)), "S") }

\* h*3600 + m*60 + s of a reading
TotalSeconds(text, cut) ==
    UnitNumber(SubSeq(text, 3, cut[1])) * 3600
      + UnitNumber(SubSeq(text, cut[1] + 1, cut[2])) * 60
      + UnitNumber(SubSeq(text, cut[2] + 1, Len(text)))

\* the record is short: its nested duration reads as PT[nH][nM][nS] and
\* totals at most 60 seconds
ShortRecord(v) ==
    /\ IsDict(Get(v, "contentDetails"))
    /\ IsStr(Get(Get(v, "contentDetails"), "duration"))
    /\ \E cut \in DurationReadings(Get(Get(v, "contentDetails"), "duration").v) :
          TotalSeconds(Get(Get(v, "contentDetails"), "duration").v, cut) <= 60

\* the record is live: its broadcast flag is "live" or "upcoming"
LiveRecord(v) ==
    /\ IsDict(Get(v, "snippet"))
    /\ Get(Get(v, "snippet"), "liveBroadcastContent") \in {JStr("live"), JStr("upcoming")}

\* the record C20 has the filter drop
Dropped(v, include_shorts, include_live) ==
    \/ ~include_shorts /\ ShortRecord(v)
    \/ ~include_live /\ LiveRecord(v)

\* every element of the input is a record
AllRecords(videos) == \A i \in DOMAIN videos : IsDict(videos[i])

\* C20: filter_videos applied to a sequence of records returns the
\* order-preserving subsequence that drops a record exactly when
\* (include_shorts is false and the record is short) or (include_live is false
\* and the record is live), where short means the nested duration matches
\* PT[nH][nM][nS] with h*3600 + m*60 + s <= 60 (an unparsable or missing
\* duration is never short) and live means the broadcast flag is "live" or
\* "upcoming"; with both flags true the output equals the input.
C20_FilterSubsequence ==
    (Filtered /\ AllRecords(p_in.videos)) =>
       /\ p_out.status = "ok"
       /\ p_out.items = SelectSeq(p_in.videos,
             LAMBDA v : ~Dropped(v, p_in.include_shorts, p_in.include_live))
       /\ (p_in.include_shorts /\ p_in.include_live) => p_out.items = p_in.videos

\* ---------------------------------------------------------------------------
\* Retries and error classes of the backend access client
\* ---------------------------------------------------------------------------

\* the outcome of an attempt is a transient failure: 429, 5xx, or a network
\* or timeout failure
Transient(o) ==
    \/ o.kind \in {"url_error", "timeout"}
    \/ o.kind = "http_error" /\ (o.status = 429 \/ (500 <= o.status /\ o.status <= 599))

\* the operation has ended
ClientFinished == c_pc \in {"done", "failed"}

\* the delays slept: the first is the initial backoff, each later one is
\* twice the one before unless the maximum is smaller, none exceeds the maximum
DelaysDoubleToMax ==
    /\ c_slept # <<>> => c_slept[1] = c_config.initial_backoff_s
    /\ \A k \in 2 .. Len(c_slept) :
          c_slept[k] = IF 2 * c_slept[k - 1] <= c_config.max_backoff_s
                       THEN 2 * c_slept[k - 1]
                       ELSE c_config.max_backoff_s
    /\ \A k \in DOMAIN c_slept : c_slept[k] <= c_config.max_backoff_s

\* the bounds of C21 in one state of an operation
RetriesBounded ==
    /\ attempt <= c_config.max_retries + 1
    /\ Len(c_slept) <= c_config.max_retries
    /\ attempt > 0 => Len(c_slept) = IF c_pc = "request" THEN attempt ELSE attempt - 1
    /\ (c_pc = "request" /\ attempt > 0) => Transient(c_last)
    /\ Transient(c_last) =>
          IF attempt <= c_config.max_retries
          THEN c_pc = "request"
          ELSE c_pc = "failed" /\ c_result.status = "YouTubeApiTransientError"
    /\ c_result.status = "YouTubeApiTransientError" =>
          (Transient(c_last) /\ attempt = c_config.max_retries + 1)
    /\ c_last.kind = "ok" => (c_pc = "done" /\ c_result = ClientResponse)
    /\ DelaysDoubleToMax

\* C21: for any sequence of backend outcomes, one operation of the client
\* ends after at most max_retries + 1 HTTP attempts: a 429, 5xx or
\* network/timeout failure is retried only while fewer than max_retries
\* retries have been made, after which the call fails with
\* YouTubeApiTransientError; a success returns at once; the delay before a
\* retry starts at the initial backoff, doubles between attempts and never
\* exceeds the maximum backoff.
C21_BoundedRetries == []RetriesBounded /\ <>ClientFinished

\* three retries used up with the delay capped by the maximum backoff
C21_Witness ==
    /\ c_config = YouTubeDataApiClientConfig(3, 1000, 3000)
    /\ attempt = 4
    /\ c_slept = <<1000, 2000, 3000>>
    /\ c_pc = "failed"
    /\ c_result.status = "YouTubeApiTransientError"

\* the typed error C22 assigns to a response with status 400, 401, 403 or 404
TypedError(o) ==
    IF o.status = 400 THEN "YouTubeApiBadRequestError"
    ELSE IF o.status = 404 THEN "YouTubeApiNotFoundError"
    ELSE IF o.reason = "quotaExceeded" THEN "YouTubeApiQuotaExceededError"
    ELSE "YouTubeApiAuthError"

\* the operation failed with the error exc after n HTTP attempts
ClientFailed(exc, n) ==
    /\ c_pc = "failed"
    /\ c_result.status = exc
    /\ attempt = n

\* C22: a response with status 400, 401, 403 or 404 ends the operation on
\* that attempt, whatever max_retries is, with the typed error (400 bad
\* request; 401/403 with reason quotaExceeded quota exceeded; any other
\* 401/403 authorization failure; 404 not found); an endpoint outside the
\* allowlist or an empty part fails (misconfiguration, bad request) before
\* any HTTP attempt.
C22_FatalErrorsNotRetried ==
    /\ (c_last.kind = "http_error" /\ c_last.status \in {400, 401, 403, 404})
          => /\ c_pc = "failed"
             /\ c_result = ClientError(TypedError(c_last), c_last.status, c_last.reason)
    /\ (c_pc \notin {"idle", "get"} /\ c_endpoint \notin YOUTUBE_DATA_API_ALLOWED_ENDPOINTS)
          => ClientFailed("YouTubeApiMisconfigurationError", 0)
    /\ (c_pc \notin {"idle", "get"} /\ c_endpoint \in YOUTUBE_DATA_API_ALLOWED_ENDPOINTS
           /\ BlankQuery(c_part))
          => ClientFailed("YouTubeApiBadRequestError", 0)

\* a 403 with reason quotaExceeded on the second attempt, with retries left
C22_Witness ==
    /\ c_config.max_retries = 3
    /\ c_last = HttpOutcome("http_error", 403, "quotaExceeded")
    /\ c_slept = <<500>>
    /\ ClientFailed("YouTubeApiQuotaExceededError", 2)

\* ---------------------------------------------------------------------------
\* The bounded loops of local_sort
\* ---------------------------------------------------------------------------

\* the requests of one kind the call has issued
CallsOf(api) == SelectSeq(calls, LAMBDA c : c.api = api)

\* the number of identifiers in the id parameter of a videos.list request
IdCount(joined) ==
    IF joined = "" THEN 0
    ELSE 1 + Cardinality({ i \in 1 .. Len(joined) : CharAt(joined, i) = "," })

\* the limits C23 puts on the requests of a local_sort call
LocalSortBounded ==
    op = "local_sort" =>
       /\ Len(CallsOf("playlist_items_list")) <= args.budget.max_pages
       /\ Len(CallsOf("videos_list")) <= Ceil(args.max_videos, VIDEOS_BATCH_SIZE)
       /\ \A i \in DOMAIN CallsOf("videos_list") :
             IdCount(CallsOf("videos_list")[i].params.id) <= VIDEOS_BATCH_SIZE
       /\ (pc = "list" /\ l_pages > 0) =>
             (Len(l_ids) < args.max_videos /\ BackendToken # None)

\* a step of a local_sort call past its argument checks ends the call or
\* issues one more request
LocalSortProgress ==
    (op = "local_sort" /\ pc # "start") =>
       \/ pc' \in {"done", "failed"}
       \/ Len(calls') = Len(calls) + 1

\* C23: for any backend behaviour, local_sort terminates (every step ends the
\* call or issues a request, and the requests are bounded), issues at most
\* budget.max_pages playlistItems.list requests and at most
\* ceil(max_videos / 50) videos.list requests of at most 50 identifiers each,
\* and fetches no further page once the accumulated identifiers have reached
\* max_videos or the backend has reported no continuation.
C23_LocalSortBounded == []LocalSortBounded /\ [][LocalSortProgress]_vars

\* the page limit stops the loop: three pages fetched, the backend still
\* reports a continuation and fewer identifiers than max_videos are held
C23_Witness ==
    /\ op = "local_sort"
    /\ pc = "done"
    /\ args.budget.max_pages = 3
    /\ Len(CallsOf("playlist_items_list")) = 3
    /\ BackendToken = "TOK"
    /\ result.applied_max_videos < args.max_videos

\* ---------------------------------------------------------------------------
\* The page local_sort returns
\* ---------------------------------------------------------------------------

\* the identifiers accumulated when the loop ends with the response received
Accumulated == l_ids \o extract_video_ids(Get(list_resp', "items"))

\* the fields of a local_sort page, against the identifiers kept
LocalPageFields ==
    (op = "local_sort" /\ pc = "done") =>
       /\ result.next_page_token = None
       /\ result.applied_max_videos = Len(l_ids)
       /\ result.applied_max_videos <= args.max_videos
       /\ result.truncated = l_truncated

\* on leaving the loop the identifiers are cut to max_videos and the flag
\* records an overshoot or an outstanding token
LocalLoopExit ==
    LeavesLoop =>
       /\ l_ids' = Take(Accumulated, args.max_videos)
       /\ l_truncated' <=> (Len(Accumulated) > args.max_videos \/ BackendToken' # None)

\* C24: every local_sort page has next_page_token None, applied_max_videos
\* equal to the number of identifiers kept (at most max_videos), and truncated
\* true exactly when more identifiers were accumulated than max_videos or the
\* last page fetched still carried a token (so also when budget.max_pages
\* stopped the loop), hence false when the backend reported no continuation
\* and nothing was dropped.
C24_LocalSortPage == []LocalPageFields /\ [][LocalLoopExit]_vars

\* budget.max_pages stopped the loop while the backend still had a token, and
\* the page returned is flagged although no identifier was dropped
C24_Witness ==
    /\ op = "local_sort"
    /\ pc = "done"
    /\ l_pages = args.budget.max_pages
    /\ BackendToken = "TOK"
    /\ result.truncated
    /\ result.applied_max_videos \in 1 .. (args.max_videos - 1)
    /\ result.next_page_token = None

\* ---------------------------------------------------------------------------
\* The order of a local_sort page
\* ---------------------------------------------------------------------------

\* the key C25 gives a record: the counter or the parsed seconds, 0 when it is
\* missing or cannot be read
KeyOrZero(video) == sort_key(video, args.order_by).key

\* the records with key k, in the order of the sequence
WithKey(videos, k) == SelectSeq(videos, LAMBDA v : KeyOrZero(v) = k)

\* the records fetched that pass the filter, in fetch order
FetchedKept == filter_videos(l_videos, args.include_shorts, args.include_live)

\* C25: the items of every local_sort page are in non-increasing order of the
\* key order_by selects, records with equal keys keep their fetch order, and a
\* record whose counter or duration is missing or cannot be read has key 0
\* rather than making the call fail.
C25_SortedByKey ==
    op = "local_sort" =>
       /\ pc = "failed" => result.at # "sort_key"
       /\ pc = "done" =>
             /\ \A i, j \in DOMAIN result.items :
                   i < j => KeyOrZero(result.items[i]) >= KeyOrZero(result.items[j])
             /\ \A i \in DOMAIN result.items :
                   WithKey(result.items, KeyOrZero(result.items[i]))
                      = WithKey(FetchedKept, KeyOrZero(result.items[i]))

\* ---------------------------------------------------------------------------
\* The identifiers handed to videos.list
\* ---------------------------------------------------------------------------

\* the sequence without the later occurrences of its elements
FirstSeen(ids) ==
    LET first == SelectSeq([i \in DOMAIN ids |-> i],
                           LAMBDA i : \A j \in 1 .. (i - 1) : ids[j] # ids[i])
    IN [k \in DOMAIN first |-> ids[first[k]]]

NoRepeat(ids) == \A i, j \in DOMAIN ids : ids[i] = ids[j] => i = j

IsPrefix(a, b) == Len(a) <= Len(b) /\ a = SubSeq(b, 1, Len(a))

\* the identifiers of the well-formed items of the list response, in response
\* order, repeats included
WellFormedIds ==
    IF op = "local_sort" \/ op = "uploads_playlist"
    THEN LET items == Get(list_resp, "items")
             ok(it) == /\ IsDict(it)
                       /\ IsDict(Get(it, "snippet"))
                       /\ IsDict(Get(Get(it, "snippet"), "resourceId"))
                       /\ IsStr(Get(Get(Get(it, "snippet"), "resourceId"), "videoId"))
                       /\ Get(Get(Get(it, "snippet"), "resourceId"), "videoId").v # ""
             kept == IF IsList(items) THEN SelectSeq(items.v, ok) ELSE <<>>
         IN [i \in DOMAIN kept |->
                Get(Get(Get(kept[i], "snippet"), "resourceId"), "videoId").v]
    ELSE [i \in DOMAIN SearchPageIds |-> SearchItemVideoId(SearchPageIds[i])]

\* the list response has been received and the identifiers are held for the
\* batch lookups
IdsHeld == Listing /\ list_resp # JAbsent /\ pc \in {"videos", "done"}

\* the identifier list of a call: no repeats, no empty identifier, within
\* max_videos; for the one-page pipelines, the first occurrences of the
\* well-formed identifiers in response order
IdListClean ==
    IdsHeld =>
       /\ NoRepeat(l_ids)
       /\ \A i \in DOMAIN l_ids : l_ids[i] # ""
       /\ Len(l_ids) <= args.max_videos
       /\ op # "local_sort" =>
             \A supplied \in {WellFormedIds} : IsPrefix(l_ids, FirstSeen(supplied))

\* local_sort, page by page: the list held after a page is a prefix of the
\* first occurrences of what was held followed by the page's identifiers
IdListGrows ==
    (op = "local_sort" /\ pc = "list" /\ pc' # "failed") =>
       \A supplied \in {l_ids \o WellFormedIds'} : IsPrefix(l_ids', FirstSeen(supplied))

\* C26: in every listing strategy the identifier list handed to the batch
\* lookups contains no identifier twice, keeps first-seen order, holds only
\* non-empty string identifiers of well-formed items and never exceeds the
\* limit; malformed items are skipped without failing the call.
C26_IdListDeduplicated == []IdListClean /\ [][IdListGrows]_vars

\* ---------------------------------------------------------------------------
\* The value of a classified reference
\* ---------------------------------------------------------------------------

\* C27: every reference parse_channel_ref returns with kind handle,
\* channel_id, username or custom_url has a non-empty value that contains
\* none of "/", "?", "#" and no whitespace, on every path, the raw channel-id
\* fast path included.
C27_ValueWithoutSeparators ==
    (/\ Parsed
     /\ p_out.status = "ok"
     /\ p_out.kind \in {"handle", "channel_id", "username", "custom_url"})
       => /\ p_out.value # ""
          /\ \A i \in 1 .. Len(p_out.value) :
                CharAt(p_out.value, i) \notin ({"/", "?", "#"} \cup Whitespace)

\* ---------------------------------------------------------------------------
\* The item ceiling of a page
\* ---------------------------------------------------------------------------

\* the records of the page answer distinct requested identifiers: what is
\* left of a backend answer with at most one record per identifier asked for
OneRecordPerId ==
    /\ \A i \in DOMAIN result.items :
          /\ IsDict(result.items[i])
          /\ IsStr(Get(result.items[i], "id"))
          /\ \E k \in DOMAIN l_ids : l_ids[k] = Get(result.items[i], "id").v
    /\ \A i, j \in DOMAIN result.items :
          Get(result.items[i], "id") = Get(result.items[j], "id") => i = j

\* C28: for every page returned by a listing pipeline called with max_videos m
\* and budget B, applied_max_videos <= min(m, B.max_videos), the ceiling the
\* quota estimate was computed from; and when the backend returns at most one
\* record per requested identifier the page has at most applied_max_videos
\* items.
C28_AppliedWithinCeiling ==
    (Listing /\ pc = "done") =>
       /\ result.applied_max_videos <= Min(args.max_videos, args.budget.max_videos)
       /\ OneRecordPerId => Len(result.items) <= result.applied_max_videos

\* ---------------------------------------------------------------------------
\* Walking the pages of uploads_playlist (under SpecWalk)
\* ---------------------------------------------------------------------------

\* the valid identifiers the backend holds in the collection
WalkBackendIds ==
    UNION { { extract_video_ids(WalkItems(k, w_playlist[k]))[i] :
                i \in DOMAIN extract_video_ids(WalkItems(k, w_playlist[k])) } :
            k \in DOMAIN w_playlist }

\* the identifiers handed to videos.list by the calls of the walk
WalkFetchedIds ==
    UNION { { w_fetched[c][i] : i \in DOMAIN w_fetched[c] } : c \in DOMAIN w_fetched }

\* C29: a walk over uploads_playlist with a fixed max_videos, from the call
\* without a token to the page whose next_page_token is None, loses no item:
\* every valid identifier of the backend's collection was handed to
\* videos.list by one of the calls, and the walk ends only when the backend
\* reported no further page.
C29_WalkLosesNothing ==
    w_pc = "ended" =>
       /\ WalkBackendIds \subseteq WalkFetchedIds
       /\ ~(IsStr(Get(w_resp, "nextPageToken")) /\ Get(w_resp, "nextPageToken").v # "")

\* ---------------------------------------------------------------------------
\* The pages-truncated note of an estimate (under SpecEstimate)
\* ---------------------------------------------------------------------------

\* the item count the estimate costs: eff, capped to 500 for search_api
NoteCostedItems ==
    IF q_strategy = "search_api" THEN Min(Eff, SEARCH_API_VIDEO_CAP) ELSE Eff

\* the pages needed for the costed item count
NotePagesNeeded == Ceil(NoteCostedItems, PLAYLIST_PAGE_SIZE)

\* the page count that entered estimated_units: the units less the batch
\* lookups, divided by the cost of a page
NotePagesCosted ==
    (q_result.estimated_units
       - (IF q_details THEN Ceil(NoteCostedItems, DEFAULT_VIDEOS_LIST_BATCH) * QUOTA_COST_READ
          ELSE 0))
      \div (IF q_strategy = "search_api" THEN QUOTA_COST_SEARCH ELSE QUOTA_COST_READ)

\* C30: in every estimate returned, for every strategy, the note "pages
\* truncated to budget.max_pages" is present if and only if the page count
\* that entered estimated_units is smaller than the page count needed for the
\* item count costed (ceil(eff / 50), and ceil(min(eff, 500) / 50) for
\* search_api).
C30_PagesNoteIffTruncated ==
    Returned =>
       (HasNote(q_result, NOTE_PAGES_TRUNCATED) <=> NotePagesCosted < NotePagesNeeded)

====
